---- MODULE Spec2Model ----
(***************************************************************************)
(* Enrollment, lecture review, lecture videos, e-content modules,          *)
(* semesters, events and the user import (relational revision: Sequelize   *)
(* controllers) and assignments with their submissions (document revision: *)
(* Mongoose controller) of the learning-management backend.                *)
(*                                                                         *)
(* Every request handler is one action: it reads the committed rows,       *)
(* applies the handler's checks in source order, and either commits its    *)
(* row changes or rolls all of them back, and records the HTTP response in *)
(* resp.  submitAssignment is two actions, split where it awaits the       *)
(* upload, so that submits can overlap.  Handlers that work with a file    *)
(* take the outcome of each storage and database call as an input.         *)
(* enrollCourse, createCourse and assignStudent also exist step by step,   *)
(* one action per awaited query, so that their transactions overlap.  The  *)
(* lecture and event routers are modelled with their middleware and the    *)
(* order of their routes.  Deleting courses, assignments and semesters is  *)
(* not modelled.                                                           *)
(***************************************************************************)
EXTENDS Integers, Sequences, FiniteSets, TLC

\* ---------------------------------------------------------------- bounds
NumStudents == 2
MaxCourses == 2
MaxLectures == 2
MaxTime == 2
MaxAssignments == 1
MaxPoints == 1
MaxInFlight == 2
MaxSemesters == 2
MaxBlobs == 2
MaxModules == 2
MaxBatch == 2
MaxEvents == 2

\* ------------------------------------------------------- program constants
\* days added by the Lecture model's reviewDeadline default
ReviewDays == 7

\* a null column or an absent body field
NULL == -1

\* Teachers rows; NoTeacher stands for a teacher id / teacher user that has no
\* Teachers row (a registered user without a profile, or an unknown id)
Teachers == {1, 2}
NoTeacher == 0
TeacherUsers == Teachers \cup {NoTeacher}

\* Students rows are 1..NumStudents; id 0 is a student-role user (or a student
\* id) without a Students row
StudentIds == 1..NumStudents
NoStudent == 0
StudentUsers == StudentIds \cup {NoStudent}

CourseIds == 1..MaxCourses
LectureIds == 1..MaxLectures
\* the clock is observed every ReviewDays days, MaxTime times
TickDays == ReviewDays

VARIABLES
  Students,        \* Students table: student id -> [teacherId]
  Courses,         \* Courses table: sequence of [teacherId], id = index
  StudentCourses,  \* StudentCourses table as a bag: <<studentId, courseId>> -> number of rows
  Lectures,        \* Lectures table: sequence of [courseId, isReviewed, reviewDeadline]
  now,             \* the wall clock (days)
  resp,            \* the response of the last handler
  Assignments,     \* assignments collection: sequence of documents, id = index
  pending,         \* submit requests between their reads and their save
  Semesters,       \* Semesters table: sequence of [startDate, endDate], id = index
  Blobs,           \* object storage: the keys of the blobs it holds
  VideoKeys,       \* Lectures.videoKey: lecture id -> key or NULL
  Destroyed,       \* ids of the Lectures rows that were deleted
  uploads,         \* number of blobs uploaded so far (the next key is uploads + 1)
  calls,           \* storage and database calls of the last handler that
                   \* works with a video or a file, in order
  EContents,       \* EContents table: the courses that have an EContent row
  Modules,         \* EContentModules table with the module's EContentFiles
                   \* row: sequence of [courseId, fileKey], id = index
  txs,             \* the requests whose transaction is open: slot -> request
  Users,           \* Users table: set of [email, role]
  TeacherRows,     \* Teachers table as the import sees it: the emails
  StudentRows,     \* Students table as the import sees it: [email, teacherEmail]
  upload,          \* req.excelData of the import that is being processed
  Events           \* Events table: sequence of [name, link, exists], id = index

assignmentVars == <<Assignments, pending>>
semesterVars == <<Semesters>>
blobVars ==
  <<Blobs, VideoKeys, Destroyed, uploads, calls, EContents, Modules>>

txVars == <<txs>>
importVars == <<Users, TeacherRows, StudentRows, upload>>
eventVars == <<Events>>

vars == <<Students, Courses, StudentCourses, Lectures, now, resp,
          assignmentVars, semesterVars, blobVars, txVars, importVars, eventVars>>

NoLectures == {}

\* body fields of a lecture update, as far as the handlers read them:
\* isReviewed ("absent" when the body has none) and reviewDeadline
Args(isReviewed, reviewDeadline) ==
  [isReviewed |-> isReviewed, reviewDeadline |-> reviewDeadline]

\* the last response: the handler that sent it and the role of its caller, the
\* HTTP status, and the payload (lectures, reported count, student roster)
Response(op, status, role, lectures, count) ==
  [op |-> op, status |-> status, role |-> role,
   lectures |-> lectures, count |-> count, students |-> {}]

NoResp == Response("none", 0, "none", NoLectures, 0)

\* a response without lectures or count in its payload
Reply(op, status, role) == Response(op, status, role, NoLectures, 0)

\* ------------------------------------------------------------ row lookups
CourseExists(c) == c \in DOMAIN Courses

\* Lecture.findByPk: the row was created and not destroyed
LectureExists(l) == l \in DOMAIN Lectures /\ l \notin Destroyed

\* the where clause left out: every student is found
StudentsOfTeacher_All(t) == StudentIds

\* Student.findAll({ where: { teacherId } })
StudentsOfTeacher(t) == {s \in StudentIds : Students[s].teacherId = t}

\* Course.findAll({ where: { teacherId } })
CoursesOfTeacher(t) == {c \in DOMAIN Courses : Courses[c].teacherId = t}

\* the lookup never finds a row
Enrolled_Never(rows, s, c) == FALSE

\* StudentCourse.findOne({ where: { studentId, courseId } })
Enrolled(rows, s, c) == rows[<<s, c>>] > 0

\* the roster of a course: StudentCourse.findAll({ where: { courseId } })
Roster(c) == {s \in StudentIds : Enrolled(StudentCourses, s, c)}

\* the table without its unique constraint
UniqueViolation_Dropped(rows, s, c) == FALSE

\* UNIQUE("studentId", "courseId"): is an insert of (s, c) turned down?
UniqueViolation(rows, s, c) == rows[<<s, c>>] > 0

\* StudentCourse.create: the row is added
InsertRow(rows, s, c) == [rows EXCEPT ![<<s, c>>] = @ + 1]

\* enrollment.destroy: one row is removed
DeleteRow(rows, s, c) == [rows EXCEPT ![<<s, c>>] = @ - 1]

\* inserting the rows (s, c) for all c in cs / all s in ss
RECURSIVE InsertCourses(_, _, _)
InsertCourses(rows, s, cs) ==
  IF cs = {} THEN rows
  ELSE LET c == CHOOSE x \in cs : TRUE
       IN InsertCourses(InsertRow(rows, s, c), s, cs \ {c})

RECURSIVE InsertStudents(_, _, _)
InsertStudents(rows, ss, c) ==
  IF ss = {} THEN rows
  ELSE LET s == CHOOSE x \in ss : TRUE
       IN InsertStudents(InsertRow(rows, s, c), ss \ {s}, c)

\* --------------------------------------------------------- lecture model
\* a Lecture model without the hook
BeforeSave_NoHook(lecture, t) == lecture

\* beforeSave hook of the Lecture model
BeforeSave(lecture, t) ==
  IF ~lecture.isReviewed /\ lecture.reviewDeadline # NULL
     /\ t >= lecture.reviewDeadline
  THEN [lecture EXCEPT !.isReviewed = TRUE]
  ELSE lecture

\* defaultValue of Lecture.reviewDeadline
DefaultReviewDeadline(t) == t + ReviewDays

\* ------------------------------------------------------------ enrollment
\* the checks of enrollCourse in source order: the status it answers with
\* the teacher comparison left out: any student may enroll in any course
EnrollStatus_NoTeacherCheck(u, c) ==
  IF ~CourseExists(c) THEN 404
  ELSE IF u \notin StudentIds THEN 404
  ELSE IF Enrolled(StudentCourses, u, c) THEN 400
  ELSE 200

EnrollStatus(u, c) ==
  IF ~CourseExists(c) THEN 404
  ELSE IF u \notin StudentIds THEN 404
  ELSE IF Courses[c].teacherId # Students[u].teacherId THEN 403
  ELSE IF Enrolled(StudentCourses, u, c) THEN 400
  ELSE 200

\* POST /courses/:courseId/enroll
enrollCourse(u, c) ==
  /\ UNCHANGED <<Students, Courses, Lectures, now>>
  /\ UNCHANGED <<assignmentVars, semesterVars, txVars, importVars, eventVars, blobVars>>
  /\ resp' = Reply("enrollCourse", EnrollStatus(u, c), "student")
  /\ IF EnrollStatus(u, c) = 200
     THEN StudentCourses' = InsertRow(StudentCourses, u, c)
     ELSE UNCHANGED StudentCourses

\* DELETE /courses/:courseId/enroll
unenrollCourse(u, c) ==
  /\ UNCHANGED <<Students, Courses, Lectures, now>>
  /\ UNCHANGED <<assignmentVars, semesterVars, txVars, importVars, eventVars, blobVars>>
  /\ IF u \notin StudentIds
     THEN /\ resp' = Reply("unenrollCourse", 404, "student")
          /\ UNCHANGED StudentCourses
     ELSE IF ~Enrolled(StudentCourses, u, c)
     THEN /\ resp' = Reply("unenrollCourse", 404, "student")
          /\ UNCHANGED StudentCourses
     ELSE /\ StudentCourses' = DeleteRow(StudentCourses, u, c)
          /\ resp' = Reply("unenrollCourse", 200, "student")

\* the teacher row assignStudent works with: an admin names it in the body,
\* anyone else gets the profile of the calling user
AssignTeacher(role, caller, bodyTeacherId) ==
  IF role = "admin" /\ bodyTeacherId # NULL
  THEN (IF bodyTeacherId \in Teachers THEN bodyTeacherId ELSE NULL)
  ELSE (IF caller \in Teachers THEN caller ELSE NULL)

\* the student row assignStudent works with: an admin may name any student,
\* a teacher only one whose teacherId is null
AssignStudentRow(role, studentId) ==
  IF role = "admin"
  THEN (IF studentId \in StudentIds THEN studentId ELSE NULL)
  ELSE (IF studentId \in StudentIds /\ Students[studentId].teacherId = NULL
        THEN studentId ELSE NULL)

\* the enrollment inserts of assignStudent: one StudentCourse.create per
\* course of the teacher, inside the transaction
AssignViolates(rows, s, cs) == \E c \in cs : UniqueViolation(rows, s, c)

\* POST /students/:studentId/assign
assignStudent(role, caller, studentId, bodyTeacherId) ==
  LET teacher == AssignTeacher(role, caller, bodyTeacherId)
      student == AssignStudentRow(role, studentId)
  IN
  /\ UNCHANGED <<Courses, Lectures, now>>
  /\ UNCHANGED <<assignmentVars, semesterVars, txVars, importVars, eventVars, blobVars>>
  /\ IF teacher = NULL
     THEN /\ resp' = Reply("assignStudent", 404, role)
          /\ UNCHANGED <<Students, StudentCourses>>
     ELSE IF student = NULL
     THEN /\ resp' = Reply("assignStudent", 404, role)
          /\ UNCHANGED <<Students, StudentCourses>>
     ELSE IF AssignViolates(StudentCourses, student, CoursesOfTeacher(teacher))
     THEN \* a create fails on the unique constraint: rollback
          /\ resp' = Reply("assignStudent", 500, role)
          /\ UNCHANGED <<Students, StudentCourses>>
     ELSE /\ Students' = [Students EXCEPT ![student].teacherId = teacher]
          /\ StudentCourses' =
               InsertCourses(StudentCourses, student, CoursesOfTeacher(teacher))
          /\ resp' = Response("assignStudent", 200, role, NoLectures,
                              Cardinality(CoursesOfTeacher(teacher)))

\* ------------------------------------------------------------- lectures
\* what a response shows of a lecture row
View(l, lecture) == [id |-> l, isReviewed |-> lecture.isReviewed]

\* request bodies: a reviewDeadline a caller may send (NULL when absent) and
\* the isReviewed field
BodyDeadlines == {k * ReviewDays : k \in 1..MaxTime}
BodyFlags == {"absent", "true", "false"}
LectureBodies == [isReviewed : {"absent", "true"},
                  reviewDeadline : BodyDeadlines \cup {NULL}]

\* req.body.isReviewed || false
FlagOrFalse(flag) == flag = "true"

\* Lecture.findAll({ where: { courseId } })
LecturesOfCourse(c) ==
  {l \in DOMAIN Lectures : LectureExists(l) /\ Lectures[l].courseId = c}

\* the check every lazy read makes before it flips a lecture
Overdue(lecture, t) ==
  ~lecture.isReviewed /\ lecture.reviewDeadline # NULL /\ t >= lecture.reviewDeadline

\* Lecture.create of createCourse: reviewDeadline is passed as given or null
CourseLectureRow(c, body, t) ==
  BeforeSave([courseId |-> c, isReviewed |-> FlagOrFalse(body.isReviewed),
              reviewDeadline |-> body.reviewDeadline], t)

\* Lecture.create of createLecture: reviewDeadline is left out when absent,
\* and the model's default fills it in
NewLectureRow(c, body, t) ==
  BeforeSave([courseId |-> c, isReviewed |-> FlagOrFalse(body.isReviewed),
              reviewDeadline |-> IF body.reviewDeadline # NULL
                                 THEN body.reviewDeadline
                                 ELSE DefaultReviewDeadline(t)], t)

\* lecture.update(updateData): set the fields the body gave, then save
UpdatedRow(lecture, args, t) ==
  BeforeSave([lecture EXCEPT
                !.isReviewed = IF args.isReviewed # "absent"
                               THEN args.isReviewed = "true" ELSE @,
                !.reviewDeadline = IF args.reviewDeadline # NULL
                                   THEN args.reviewDeadline ELSE @],
             t)

\* POST /courses : the course, its initial lectures and the enrollment of
\* every student of the teacher, in one transaction; after the commit the
\* course is read back for the response (readOk: that read succeeds)
createCourse(caller, semesterOk, bodies, readOk) ==
  LET c == Len(Courses) + 1
      rows == [i \in 1..Len(bodies) |-> CourseLectureRow(c, bodies[i], now)]
  IN
  /\ Len(Courses) < MaxCourses
  /\ Len(Lectures) + Len(bodies) <= MaxLectures
  /\ UNCHANGED <<Students, now>>
  /\ UNCHANGED <<assignmentVars, semesterVars, txVars, importVars, eventVars, blobVars>>
  /\ IF caller \notin Teachers
     THEN /\ resp' = Reply("createCourse", 404, "teacher")
          /\ UNCHANGED <<Courses, Lectures, StudentCourses>>
     ELSE IF ~semesterOk
     THEN \* Course.create fails on the semester foreign key: rollback
          /\ resp' = Reply("createCourse", 400, "teacher")
          /\ UNCHANGED <<Courses, Lectures, StudentCourses>>
     ELSE /\ Courses' = Append(Courses, [teacherId |-> caller])
          /\ Lectures' = Lectures \o rows
          /\ StudentCourses' =
               InsertStudents(StudentCourses, StudentsOfTeacher(caller), c)
          /\ resp' = IF readOk
                     THEN Response("createCourse", 201, "teacher",
                                   {View(Len(Lectures) + i, rows[i]) :
                                      i \in 1..Len(bodies)},
                                   0)
                     ELSE \* Course.findByPk fails: the catch block calls
                          \* rollback on the committed transaction, which
                          \* throws, and the error middleware answers
                          Reply("createCourse", 500, "teacher")

\* POST /:courseId/lectures
createLecture(caller, c, body) ==
  /\ Len(Lectures) < MaxLectures
  /\ UNCHANGED <<Students, Courses, StudentCourses, now>>
  /\ UNCHANGED <<assignmentVars, semesterVars, txVars, importVars, eventVars, blobVars>>
  /\ IF caller \notin Teachers
     THEN /\ resp' = Reply("createLecture", 404, "teacher")
          /\ UNCHANGED Lectures
     ELSE IF ~(CourseExists(c) /\ Courses[c].teacherId = caller)
     THEN /\ resp' = Reply("createLecture", 404, "teacher")
          /\ UNCHANGED Lectures
     ELSE LET row == NewLectureRow(c, body, now)
          IN /\ Lectures' = Append(Lectures, row)
             /\ resp' = Response("createLecture", 201, "teacher",
                                 {View(Len(Lectures) + 1, row)}, 0)

\* the checks updateLecture and updateLectureReviewStatus make: 0 when the
\* teacher may change the lecture, else the error status
TeacherLectureCheck(caller, l) ==
  IF caller \notin Teachers THEN 404
  ELSE IF ~LectureExists(l) THEN 404
  ELSE IF ~(CourseExists(Lectures[l].courseId)
            /\ Courses[Lectures[l].courseId].teacherId = caller) THEN 403
  ELSE 0

\* PUT /:courseId/lectures/:lectureId
updateLecture(caller, l, args) ==
  LET check == TeacherLectureCheck(caller, l)
  IN
  /\ UNCHANGED <<Students, Courses, StudentCourses, now>>
  /\ UNCHANGED <<assignmentVars, semesterVars, txVars, importVars, eventVars, blobVars>>
  /\ IF check # 0
     THEN /\ resp' = Reply("updateLecture", check, "teacher")
          /\ UNCHANGED Lectures
     ELSE LET row == UpdatedRow(Lectures[l], args, now)
          IN /\ Lectures' = [Lectures EXCEPT ![l] = row]
             /\ resp' = Response("updateLecture", 200, "teacher", {View(l, row)}, 0)

\* PUT /:courseId/lectures/:lectureId/review
updateLectureReviewStatus(caller, l, args) ==
  LET check == TeacherLectureCheck(caller, l)
  IN
  /\ UNCHANGED <<Students, Courses, StudentCourses, now>>
  /\ UNCHANGED <<assignmentVars, semesterVars, txVars, importVars, eventVars, blobVars>>
  /\ IF check # 0
     THEN /\ resp' = Reply("updateLectureReviewStatus", check, "teacher")
          /\ UNCHANGED Lectures
     ELSE LET row == UpdatedRow(Lectures[l], args, now)
          IN /\ Lectures' = [Lectures EXCEPT ![l] = row]
             /\ resp' = Response("updateLectureReviewStatus", 200, "teacher",
                                 {View(l, row)}, 0)

\* the where clause without its courseId term
BulkReviewMatch_AnyCourse(lecture, c, t) ==
  /\ lecture.isReviewed = FALSE
  /\ lecture.reviewDeadline # NULL
  /\ lecture.reviewDeadline <= t

\* WHERE courseId = c AND isReviewed = false AND reviewDeadline <= now
BulkReviewMatch(lecture, c, t) ==
  /\ lecture.courseId = c
  /\ lecture.isReviewed = FALSE
  /\ lecture.reviewDeadline # NULL
  /\ lecture.reviewDeadline <= t

\* PUT /:courseId/lectures/review-all
updateAllLectureReviewStatuses(caller, c) ==
  /\ UNCHANGED <<Students, Courses, StudentCourses, now>>
  /\ UNCHANGED <<assignmentVars, semesterVars, txVars, importVars, eventVars, blobVars>>
  /\ IF caller \notin Teachers
     THEN /\ resp' = Reply("updateAllLectureReviewStatuses", 404, "teacher")
          /\ UNCHANGED Lectures
     ELSE IF ~(CourseExists(c) /\ Courses[c].teacherId = caller)
     THEN /\ resp' = Reply("updateAllLectureReviewStatuses", 404, "teacher")
          /\ UNCHANGED Lectures
     ELSE LET matched == {l \in DOMAIN Lectures :
                            LectureExists(l) /\ BulkReviewMatch(Lectures[l], c, now)}
          IN /\ Lectures' = [l \in DOMAIN Lectures |->
                               IF l \in matched
                               THEN [Lectures[l] EXCEPT !.isReviewed = TRUE]
                               ELSE Lectures[l]]
             /\ resp' = Response("updateAllLectureReviewStatuses", 200, "teacher",
                                 NoLectures, Cardinality(matched))

\* ----------------------------------------------------------------- reads
\* GET /:courseId/lectures/:lectureId (teacher or student)
getLectureById(role, caller, l) ==
  /\ UNCHANGED <<Students, Courses, StudentCourses, now>>
  /\ UNCHANGED <<assignmentVars, semesterVars, txVars, importVars, eventVars, blobVars>>
  /\ IF ~LectureExists(l)
     THEN /\ resp' = Reply("getLectureById", 404, role)
          /\ UNCHANGED Lectures
     ELSE IF role = "teacher"
             /\ (caller \notin Teachers
                 \/ Courses[Lectures[l].courseId].teacherId # caller)
     THEN /\ resp' = Reply("getLectureById", 403, role)
          /\ UNCHANGED Lectures
     ELSE IF role = "student" /\ caller \notin StudentIds
     THEN /\ resp' = Reply("getLectureById", 404, role)
          /\ UNCHANGED Lectures
     ELSE IF role = "student"
             /\ ~Enrolled(StudentCourses, caller, Lectures[l].courseId)
     THEN /\ resp' = Reply("getLectureById", 403, role)
          /\ UNCHANGED Lectures
     ELSE IF role = "student" /\ ~Lectures[l].isReviewed
     THEN \* students can only see reviewed lectures
          /\ resp' = Reply("getLectureById", 403, role)
          /\ UNCHANGED Lectures
     ELSE LET row == IF Overdue(Lectures[l], now)
                     THEN BeforeSave([Lectures[l] EXCEPT !.isReviewed = TRUE], now)
                     ELSE Lectures[l]
          IN /\ Lectures' = [Lectures EXCEPT ![l] = row]
             /\ resp' = Response("getLectureById", 200, role, {View(l, row)}, 0)

\* GET /:courseId/lectures (teacher view)
getCourseLectures(caller, c) ==
  /\ UNCHANGED <<Students, Courses, StudentCourses, now>>
  /\ UNCHANGED <<assignmentVars, semesterVars, txVars, importVars, eventVars, blobVars>>
  /\ IF caller \notin Teachers
     THEN /\ resp' = Reply("getCourseLectures", 404, "teacher")
          /\ UNCHANGED Lectures
     ELSE IF ~(CourseExists(c) /\ Courses[c].teacherId = caller)
     THEN /\ resp' = Reply("getCourseLectures", 404, "teacher")
          /\ UNCHANGED Lectures
     ELSE LET rows == [l \in DOMAIN Lectures |->
                         IF LectureExists(l) /\ Lectures[l].courseId = c
                            /\ Overdue(Lectures[l], now)
                         THEN BeforeSave([Lectures[l] EXCEPT !.isReviewed = TRUE], now)
                         ELSE Lectures[l]]
          IN /\ Lectures' = rows
             /\ resp' = Response("getCourseLectures", 200, "teacher",
                                 {View(l, rows[l]) : l \in LecturesOfCourse(c)}, 0)

\* GET /student/:courseId/lectures (student view): the rows stored as reviewed
getCourseLecturesByStudents(caller, c) ==
  /\ UNCHANGED <<Students, Courses, StudentCourses, Lectures, now>>
  /\ UNCHANGED <<assignmentVars, semesterVars, txVars, importVars, eventVars, blobVars>>
  /\ IF caller \notin StudentIds
     THEN resp' = Reply("getCourseLecturesByStudents", 404, "student")
     ELSE IF ~Enrolled(StudentCourses, caller, c)
     THEN resp' = Reply("getCourseLecturesByStudents", 403, "student")
     ELSE resp' = Response("getCourseLecturesByStudents", 200, "student",
                           {View(l, Lectures[l]) :
                              l \in {x \in LecturesOfCourse(c) : Lectures[x].isReviewed}},
                           0)

\* has the caller access to the course: its teacher, or a student enrolled in it
HasAccess(role, caller, c) ==
  \/ role = "teacher" /\ caller \in Teachers /\ Courses[c].teacherId = caller
  \/ role = "student" /\ caller \in StudentIds /\ Enrolled(StudentCourses, caller, c)

\* GET /courses/:courseId (course detail with the course's lectures embedded;
\* a teacher also gets the roster and its size)
getCourseById(role, caller, c) ==
  /\ UNCHANGED <<Students, Courses, StudentCourses, Lectures, now>>
  /\ UNCHANGED <<assignmentVars, semesterVars, txVars, importVars, eventVars, blobVars>>
  /\ IF ~CourseExists(c)
     THEN resp' = Reply("getCourseById", 404, role)
     ELSE IF ~HasAccess(role, caller, c)
     THEN resp' = Reply("getCourseById", 403, role)
     ELSE resp' = [Response("getCourseById", 200, role,
                            {View(l, Lectures[l]) : l \in LecturesOfCourse(c)},
                            IF role = "teacher" THEN Cardinality(Roster(c)) ELSE 0)
                   EXCEPT !.students = IF role = "teacher" THEN Roster(c) ELSE {}]

\* ------------------------------------------------------------ video blobs
\* keys of uploaded blobs: the n-th upload gets key n
BlobKeys == 1..MaxBlobs

\* req.files.video: a video, or a file of another type
VideoFiles == {"video", "other"}

\* the request body sent along with a video
PlainBody == [isReviewed |-> "absent", reviewDeadline |-> NULL]

\* a deleteLecture that lets the storage error through
SwallowDeleteError_Rethrown == FALSE

\* deleteLecture catches the error of deleteFileFromAzure and goes on
SwallowDeleteError == TRUE

\* deleteFileFromAzure(key): the blob is removed unless the call throws (a
\* missing blob is no error)
AfterBlobDelete(blobs, key, ok) == IF ok THEN blobs \ {key} ELSE blobs

\* rollback: no row of Lectures changes
LectureRowsUnchanged == UNCHANGED <<Lectures, VideoKeys, Destroyed>>

\* the position of the first call of that name in a call log, 0 if none
CallIndex(log, name) ==
  IF \E i \in DOMAIN log : log[i] = name
  THEN CHOOSE i \in DOMAIN log :
         log[i] = name /\ \A j \in 1..(i - 1) : log[j] # name
  ELSE 0

\* POST /:courseId/lectures with a video file
createLectureWithVideo(caller, c, body, file, uploadOk, dbOk) ==
  LET key == uploads + 1
      row == NewLectureRow(c, body, now)
  IN
  /\ Len(Lectures) < MaxLectures
  /\ uploads < MaxBlobs
  /\ UNCHANGED <<Students, Courses, StudentCourses, now>>
  /\ UNCHANGED <<assignmentVars, semesterVars, txVars, importVars, eventVars, EContents, Modules>>
  /\ IF caller \notin Teachers
     THEN /\ resp' = Reply("createLecture", 404, "teacher")
          /\ calls' = <<"rollback">>
          /\ LectureRowsUnchanged /\ UNCHANGED <<Blobs, uploads>>
     ELSE IF ~(CourseExists(c) /\ Courses[c].teacherId = caller)
     THEN /\ resp' = Reply("createLecture", 404, "teacher")
          /\ calls' = <<"rollback">>
          /\ LectureRowsUnchanged /\ UNCHANGED <<Blobs, uploads>>
     ELSE IF file # "video"
     THEN /\ resp' = Reply("createLecture", 400, "teacher")
          /\ calls' = <<"rollback">>
          /\ LectureRowsUnchanged /\ UNCHANGED <<Blobs, uploads>>
     ELSE IF ~uploadOk
     THEN /\ resp' = Reply("createLecture", 500, "teacher")
          /\ calls' = <<"upload", "rollback">>
          /\ LectureRowsUnchanged /\ UNCHANGED <<Blobs, uploads>>
     ELSE IF ~dbOk
     THEN \* Lecture.create or the commit fails: the blob stays
          /\ resp' = Reply("createLecture", 500, "teacher")
          /\ calls' = <<"upload", "create", "rollback">>
          /\ Blobs' = Blobs \cup {key}
          /\ uploads' = uploads + 1
          /\ LectureRowsUnchanged
     ELSE /\ Blobs' = Blobs \cup {key}
          /\ uploads' = uploads + 1
          /\ Lectures' = Append(Lectures, row)
          /\ VideoKeys' = [VideoKeys EXCEPT ![Len(Lectures) + 1] = key]
          /\ UNCHANGED Destroyed
          /\ calls' = <<"upload", "create", "commit">>
          /\ resp' = Response("createLecture", 201, "teacher",
                              {View(Len(Lectures) + 1, row)}, 0)

\* PUT /:courseId/lectures/:lectureId with a video file: the old blob is
\* deleted, the new one uploaded, then the row is updated
updateLectureWithVideo(caller, l, args, file, deleteOk, uploadOk, dbOk) ==
  LET check == TeacherLectureCheck(caller, l)
      key == uploads + 1
      hasOld == VideoKeys[l] # NULL
      deleted == IF hasOld THEN <<"deleteBlob">> ELSE <<>>
      blobs == IF hasOld THEN AfterBlobDelete(Blobs, VideoKeys[l], TRUE) ELSE Blobs
  IN
  /\ uploads < MaxBlobs
  /\ UNCHANGED <<Students, Courses, StudentCourses, now>>
  /\ UNCHANGED <<assignmentVars, semesterVars, txVars, importVars, eventVars, EContents, Modules>>
  /\ IF check # 0
     THEN /\ resp' = Reply("updateLecture", check, "teacher")
          /\ calls' = <<"rollback">>
          /\ LectureRowsUnchanged /\ UNCHANGED <<Blobs, uploads>>
     ELSE IF file # "video"
     THEN /\ resp' = Reply("updateLecture", 400, "teacher")
          /\ calls' = <<"rollback">>
          /\ LectureRowsUnchanged /\ UNCHANGED <<Blobs, uploads>>
     ELSE IF hasOld /\ ~deleteOk
     THEN \* deleteFileFromAzure throws: "Failed to update video file"
          /\ resp' = Reply("updateLecture", 500, "teacher")
          /\ calls' = <<"deleteBlob", "rollback">>
          /\ LectureRowsUnchanged /\ UNCHANGED <<Blobs, uploads>>
     ELSE IF ~uploadOk
     THEN /\ resp' = Reply("updateLecture", 500, "teacher")
          /\ calls' = deleted \o <<"upload", "rollback">>
          /\ Blobs' = blobs
          /\ LectureRowsUnchanged /\ UNCHANGED uploads
     ELSE IF ~dbOk
     THEN \* lecture.update or the commit fails
          /\ resp' = Reply("updateLecture", 500, "teacher")
          /\ calls' = deleted \o <<"upload", "update", "rollback">>
          /\ Blobs' = blobs \cup {key}
          /\ uploads' = uploads + 1
          /\ LectureRowsUnchanged
     ELSE LET row == UpdatedRow(Lectures[l], args, now)
          IN /\ Blobs' = blobs \cup {key}
             /\ uploads' = uploads + 1
             /\ Lectures' = [Lectures EXCEPT ![l] = row]
             /\ VideoKeys' = [VideoKeys EXCEPT ![l] = key]
             /\ UNCHANGED Destroyed
             /\ calls' = deleted \o <<"upload", "update", "commit">>
             /\ resp' = Response("updateLecture", 200, "teacher", {View(l, row)}, 0)

\* DELETE /:courseId/lectures/:lectureId ; VideoKeys keeps the key the
\* destroyed row had
deleteLecture(caller, l, deleteOk, dbOk) ==
  LET check == TeacherLectureCheck(caller, l)
      hasKey == VideoKeys[l] # NULL
      deleted == IF hasKey THEN <<"deleteBlob">> ELSE <<>>
      blobs == IF hasKey THEN AfterBlobDelete(Blobs, VideoKeys[l], deleteOk)
               ELSE Blobs
  IN
  /\ UNCHANGED <<Students, Courses, StudentCourses, now>>
  /\ UNCHANGED <<assignmentVars, semesterVars, txVars, importVars, eventVars, EContents, Modules>>
  /\ UNCHANGED <<Lectures, VideoKeys, uploads>>
  /\ IF check # 0
     THEN /\ resp' = Reply("deleteLecture", check, "teacher")
          /\ calls' = <<"rollback">>
          /\ UNCHANGED <<Blobs, Destroyed>>
     ELSE IF hasKey /\ ~deleteOk /\ ~SwallowDeleteError
     THEN /\ resp' = Reply("deleteLecture", 500, "teacher")
          /\ calls' = <<"deleteBlob", "rollback">>
          /\ UNCHANGED <<Blobs, Destroyed>>
     ELSE IF ~dbOk
     THEN \* lecture.destroy or the commit fails: the row stays
          /\ resp' = Reply("deleteLecture", 500, "teacher")
          /\ calls' = deleted \o <<"destroy", "rollback">>
          /\ Blobs' = blobs
          /\ UNCHANGED Destroyed
     ELSE /\ Blobs' = blobs
          /\ Destroyed' = Destroyed \cup {l}
          /\ calls' = deleted \o <<"destroy", "commit">>
          /\ resp' = Reply("deleteLecture", 200, "teacher")

\* ---------------------------------------------------------------- e-content
\* req.files.files of a module: none, one document of an allowed type, or one
\* file the type or size validation turns down
ModuleFiles == {"none", "document", "other"}

\* the database call of createEContent that fails, if any: a create of the
\* EContent or module row, the create of the file row, or the commit
DbFailures == {"none", "module", "file", "commit"}

\* the rows written inside the transaction stay although it was rolled back
\* (creates made outside the transaction)
RolledBack_Autocommit(econtents, modules) ==
  EContents' = econtents /\ Modules' = modules

\* transaction.rollback(): the EContents and EContentModules rows written
\* inside the transaction are gone
RolledBack(econtents, modules) ==
  EContents' = EContents /\ Modules' = Modules

\* POST /course/:courseId/econtent : the EContent row of the course (created
\* when missing), a module row and, with a file, the upload and a file row
createEContent(caller, c, fieldsOk, file, uploadOk, dbFail, readOk) ==
  LET key == uploads + 1
      econtents == EContents \cup {c}
      modules == Append(Modules, [courseId |-> c, fileKey |-> NULL])
      withFile == Append(Modules, [courseId |-> c, fileKey |-> key])
  IN
  /\ Len(Modules) < MaxModules
  /\ uploads < MaxBlobs
  /\ UNCHANGED <<Students, Courses, StudentCourses, Lectures, now>>
  /\ UNCHANGED <<assignmentVars, semesterVars, txVars, importVars, eventVars, VideoKeys, Destroyed>>
  /\ IF ~fieldsOk
     THEN /\ resp' = Reply("createEContent", 400, "teacher")
          /\ calls' = <<"rollback">>
          /\ RolledBack(EContents, Modules) /\ UNCHANGED <<Blobs, uploads>>
     ELSE IF caller \notin Teachers
     THEN /\ resp' = Reply("createEContent", 404, "teacher")
          /\ calls' = <<"rollback">>
          /\ RolledBack(EContents, Modules) /\ UNCHANGED <<Blobs, uploads>>
     ELSE IF ~(CourseExists(c) /\ Courses[c].teacherId = caller)
     THEN /\ resp' = Reply("createEContent", 404, "teacher")
          /\ calls' = <<"rollback">>
          /\ RolledBack(EContents, Modules) /\ UNCHANGED <<Blobs, uploads>>
     ELSE IF dbFail = "module"
     THEN /\ resp' = Reply("createEContent", 500, "teacher")
          /\ calls' = <<"create", "rollback">>
          /\ RolledBack(econtents, Modules) /\ UNCHANGED <<Blobs, uploads>>
     ELSE IF file = "other"
     THEN \* handleFileUploads throws ErrorHandler(..., 400) before any upload
          /\ resp' = Reply("createEContent", 400, "teacher")
          /\ calls' = <<"create", "rollback">>
          /\ RolledBack(econtents, modules) /\ UNCHANGED <<Blobs, uploads>>
     ELSE IF file = "document" /\ ~uploadOk
     THEN /\ resp' = Reply("createEContent", 500, "teacher")
          /\ calls' = <<"create", "upload", "rollback">>
          /\ RolledBack(econtents, modules) /\ UNCHANGED <<Blobs, uploads>>
     ELSE IF file = "document" /\ dbFail \in {"file", "commit"}
     THEN \* the blob stays in storage
          /\ resp' = Reply("createEContent", 500, "teacher")
          /\ calls' = <<"create", "upload", "create", "rollback">>
          /\ Blobs' = Blobs \cup {key}
          /\ uploads' = uploads + 1
          /\ RolledBack(econtents, withFile)
     ELSE IF dbFail = "commit"
     THEN /\ resp' = Reply("createEContent", 500, "teacher")
          /\ calls' = <<"create", "rollback">>
          /\ RolledBack(econtents, modules) /\ UNCHANGED <<Blobs, uploads>>
     ELSE /\ EContents' = econtents
          /\ Modules' = IF file = "document" THEN withFile ELSE modules
          /\ Blobs' = IF file = "document" THEN Blobs \cup {key} ELSE Blobs
          /\ uploads' = IF file = "document" THEN uploads + 1 ELSE uploads
          /\ calls' = IF file = "document"
                      THEN <<"create", "upload", "create", "commit">>
                      ELSE <<"create", "commit">>
          \* EContentModule.findByPk after the commit: when it fails the
          \* catch block answers 500 and does not roll back
          /\ resp' = Reply("createEContent", IF readOk THEN 201 ELSE 500,
                           "teacher")

\* ------------------------------------------------------------ assignments
\* (document revision: an assignment document embeds its submissions)
AssignmentIds == 1..MaxAssignments

\* files a student may send: two accepted documents, one of a type outside the
\* allow-list, or none (NULL)
Files == {1, 2}
BadTypeFile == 3
SubmitFiles == Files \cup {BadTypeFile, NULL}

\* feedback texts of a grading; NoFeedback is the schema default ""
NoFeedback == 0
Feedbacks == {1}

\* req.body.grade: absent (NULL), negative, or 0 .. one above the largest total
NegativeGrade == -2
BodyGrades == {NULL, NegativeGrade} \cup (0..(MaxPoints + 1))

\* req.body.dueDate of a new assignment: one period after the start, or absent
DueDates == {TickDays, NULL}

\* req.body.totalPoints of a new assignment: 0 .. MaxPoints
BodyPoints == 0..MaxPoints

\* now > assignment.dueDate
LateFlag(t, dueDate) == IF t > dueDate THEN "true" ELSE "false"

\* the paths of submissionSchema
SubmissionPaths ==
  {"student", "submissionDate", "submissionFile", "grade", "feedback", "status"}

\* a value set on a subdocument: kept on a path of the schema, dropped on any
\* other (the schema is strict)
SchemaSet(path, value) == IF path \in SubmissionPaths THEN value ELSE "absent"

\* assignment.submissions.push({...}): grade and feedback take their defaults
NewSubmission(s, file, t, late) ==
  [student |-> s, submissionDate |-> t, submissionFile |-> file,
   grade |-> NULL, feedback |-> NoFeedback, status |-> "submitted",
   isLate |-> SchemaSet("isLate", late)]

\* a resubmission that also clears the grade
Resubmitted_ClearsGrade(sub, file, t, late) ==
  [sub EXCEPT !.submissionFile = file, !.submissionDate = t,
              !.status = "submitted", !.grade = NULL]

\* the fields submitAssignment sets on an existing submission
Resubmitted(sub, file, t, late) ==
  [sub EXCEPT !.submissionFile = file, !.submissionDate = t,
              !.status = "submitted",
              !.isLate = IF "isLate" \in SubmissionPaths THEN late ELSE @]

\* a grading that hands the submission back
Graded_Returned(sub, g, fb) ==
  [sub EXCEPT !.grade = g, !.feedback = fb, !.status = "returned"]

\* the fields gradeSubmission sets
Graded(sub, g, fb) ==
  [sub EXCEPT !.grade = g, !.feedback = fb, !.status = "graded"]

\* assignment.submissions.find(sub => sub.student.equals(student._id)): the
\* index of the first submission of s, 0 when there is none
FindSubmission(subs, s) ==
  IF \E i \in DOMAIN subs : subs[i].student = s
  THEN CHOOSE i \in DOMAIN subs :
         subs[i].student = s /\ \A j \in 1..(i - 1) : subs[j].student # s
  ELSE 0

\* !grade || grade < 0 || grade > assignment.totalPoints
GradeInvalid(g, totalPoints) ==
  g = NULL \/ g = 0 \/ g < 0 \/ g > totalPoints

\* POST /courses/:courseId/assignments
createAssignment(c, dueDate, totalPoints) ==
  /\ Len(Assignments) < MaxAssignments
  /\ UNCHANGED <<Students, Courses, StudentCourses, Lectures, now>>
  /\ UNCHANGED <<pending, semesterVars, txVars, importVars, eventVars, blobVars>>
  /\ IF dueDate = NULL \/ totalPoints = 0
     THEN /\ resp' = Reply("createAssignment", 400, "teacher")
          /\ UNCHANGED Assignments
     ELSE IF ~CourseExists(c)
     THEN /\ resp' = Reply("createAssignment", 404, "teacher")
          /\ UNCHANGED Assignments
     ELSE /\ Assignments' =
               Append(Assignments,
                      [course |-> c, dueDate |-> dueDate,
                       totalPoints |-> totalPoints, isActive |-> TRUE,
                       submissions |-> <<>>])
          /\ resp' = Reply("createAssignment", 201, "teacher")

\* the checks updateAssignment and gradeSubmission make on the caller: 0 when
\* the teacher owns the course of the assignment, else the error status
TeacherAssignmentCheck(caller, a) ==
  IF caller \notin Teachers THEN 404
  ELSE IF a \notin DOMAIN Assignments THEN 404
  ELSE IF ~(CourseExists(Assignments[a].course)
            /\ Courses[Assignments[a].course].teacherId = caller) THEN 403
  ELSE 0

\* PUT /assignments/:assignmentId with isActive in the body
updateAssignment(caller, a, isActive) ==
  LET check == TeacherAssignmentCheck(caller, a)
  IN
  /\ UNCHANGED <<Students, Courses, StudentCourses, Lectures, now>>
  /\ UNCHANGED <<pending, semesterVars, txVars, importVars, eventVars, blobVars>>
  /\ IF check # 0
     THEN /\ resp' = Reply("updateAssignment", check, "teacher")
          /\ UNCHANGED Assignments
     ELSE /\ Assignments' =
               [Assignments EXCEPT
                  ![a].isActive = IF isActive # "absent"
                                  THEN isActive = "true" ELSE @]
          /\ resp' = Reply("updateAssignment", 200, "teacher")

\* the checks of submitAssignment in source order: 0 when the upload starts
SubmitStatus(u, a, file) ==
  IF u \notin StudentIds THEN 404
  ELSE IF a \notin DOMAIN Assignments THEN 404
  ELSE IF ~CourseExists(Assignments[a].course) THEN 404
  ELSE IF ~Enrolled(StudentCourses, u, Assignments[a].course) THEN 403
  ELSE IF ~Assignments[a].isActive THEN 400
  ELSE IF file = NULL THEN 400
  ELSE IF file \notin Files THEN 400
  ELSE 0

\* POST /assignments/:assignmentId/submit, up to the upload: the student and
\* the assignment document are read, the request is checked and the time is
\* taken; the request then waits for the upload with the document it read
submitAssignment(u, a, file) ==
  /\ UNCHANGED <<Students, Courses, StudentCourses, Lectures, now>>
  /\ UNCHANGED <<Assignments, semesterVars, txVars, importVars, eventVars, blobVars>>
  /\ IF SubmitStatus(u, a, file) # 0
     THEN /\ resp' = Reply("submitAssignment", SubmitStatus(u, a, file), "student")
          /\ UNCHANGED pending
     ELSE /\ Cardinality(pending) < MaxInFlight
          /\ pending' = pending \cup
               {[student |-> u, assignment |-> a, file |-> file, date |-> now,
                 late |-> LateFlag(now, Assignments[a].dueDate),
                 existing |-> FindSubmission(Assignments[a].submissions, u)]}
          /\ UNCHANGED resp

\* submitAssignment from the end of the upload: the submission found in the
\* document that was read is overwritten, or a new one is pushed, and the
\* changed paths are saved; a failed upload answers 500
submitAssignmentSave(r, uploadOk) ==
  /\ r \in pending
  /\ pending' = pending \ {r}
  /\ UNCHANGED <<Students, Courses, StudentCourses, Lectures, now>>
  /\ UNCHANGED <<semesterVars, txVars, importVars, eventVars, blobVars>>
  /\ IF ~uploadOk
     THEN /\ resp' = Reply("submitAssignment", 500, "student")
          /\ UNCHANGED Assignments
     ELSE /\ Assignments' =
               [Assignments EXCEPT ![r.assignment].submissions =
                  IF r.existing # 0
                  THEN [@ EXCEPT ![r.existing] =
                          Resubmitted(@, r.file, r.date, r.late)]
                  ELSE Append(@, NewSubmission(r.student, r.file, r.date, r.late))]
          /\ resp' = Reply("submitAssignment", 200, "student")

\* POST /assignments/:assignmentId/submissions/:submissionId/grade
gradeSubmission(caller, a, sub, g, fb) ==
  LET check == TeacherAssignmentCheck(caller, a)
  IN
  /\ UNCHANGED <<Students, Courses, StudentCourses, Lectures, now>>
  /\ UNCHANGED <<pending, semesterVars, txVars, importVars, eventVars, blobVars>>
  /\ IF check # 0
     THEN /\ resp' = Reply("gradeSubmission", check, "teacher")
          /\ UNCHANGED Assignments
     ELSE IF GradeInvalid(g, Assignments[a].totalPoints)
     THEN /\ resp' = Reply("gradeSubmission", 400, "teacher")
          /\ UNCHANGED Assignments
     ELSE IF sub \notin DOMAIN Assignments[a].submissions
     THEN /\ resp' = Reply("gradeSubmission", 404, "teacher")
          /\ UNCHANGED Assignments
     ELSE /\ Assignments' =
               [Assignments EXCEPT ![a].submissions[sub] = Graded(@, g, fb)]
          /\ resp' = Reply("gradeSubmission", 200, "teacher")

\* -------------------------------------------------------------- semesters
SemesterIds == 1..MaxSemesters

\* req.body.name: a name, or absent (NULL)
SemesterNames == {1, 2}

\* req.body.startDate / endDate: a date, a string that is no date, or absent
InvalidDate == -2
SemesterDates == {k * TickDays : k \in 1..(MaxTime + 1)}
BodyDates == SemesterDates \cup {InvalidDate, NULL}

\* a check that lets equal dates through
DatesOutOfOrder_Strict(startDate, endDate) == startDate > endDate

\* start >= end
DatesOutOfOrder(startDate, endDate) == startDate >= endDate

\* POST /semesters
createSemester(name, startDate, endDate) ==
  /\ Len(Semesters) < MaxSemesters
  /\ UNCHANGED <<Students, Courses, StudentCourses, Lectures, now>>
  /\ UNCHANGED <<assignmentVars, txVars, importVars, eventVars, blobVars>>
  /\ IF name = NULL \/ startDate = NULL \/ endDate = NULL
     THEN /\ resp' = Reply("createSemester", 400, "admin")
          /\ UNCHANGED Semesters
     ELSE IF startDate = InvalidDate \/ endDate = InvalidDate
     THEN /\ resp' = Reply("createSemester", 400, "admin")
          /\ UNCHANGED Semesters
     ELSE IF DatesOutOfOrder(startDate, endDate)
     THEN /\ resp' = Reply("createSemester", 400, "admin")
          /\ UNCHANGED Semesters
     ELSE /\ Semesters' = Append(Semesters,
                                 [name |-> name, startDate |-> startDate,
                                  endDate |-> endDate])
          /\ resp' = Reply("createSemester", 201, "admin")

\* PUT /semesters/:id
updateSemester(id, name, startDate, endDate) ==
  /\ UNCHANGED <<Students, Courses, StudentCourses, Lectures, now>>
  /\ UNCHANGED <<assignmentVars, txVars, importVars, eventVars, blobVars>>
  /\ IF id \notin DOMAIN Semesters
     THEN /\ resp' = Reply("updateSemester", 404, "admin")
          /\ UNCHANGED Semesters
     ELSE IF startDate # NULL /\ endDate # NULL
             /\ (startDate = InvalidDate \/ endDate = InvalidDate)
     THEN /\ resp' = Reply("updateSemester", 400, "admin")
          /\ UNCHANGED Semesters
     ELSE IF startDate # NULL /\ endDate # NULL
             /\ DatesOutOfOrder(startDate, endDate)
     THEN /\ resp' = Reply("updateSemester", 400, "admin")
          /\ UNCHANGED Semesters
     ELSE IF (startDate # NULL) # (endDate # NULL)
     THEN \* both dates must be provided together
          /\ resp' = Reply("updateSemester", 400, "admin")
          /\ UNCHANGED Semesters
     ELSE /\ Semesters' =
               [Semesters EXCEPT
                  ![id].name = IF name # NULL THEN name ELSE @,
                  ![id].startDate = IF startDate # NULL THEN startDate ELSE @,
                  ![id].endDate = IF endDate # NULL THEN endDate ELSE @]
          /\ resp' = Reply("updateSemester", 200, "admin")

\* ----------------------------------------------- overlapping transactions
\* (the handlers of enrollment step by step: every await that reads or writes
\* rows is a step, so that requests overlap.  The database is PostgreSQL at
\* its default isolation level: a read sees the committed rows, an insert
\* that meets the uncommitted insert of the same unique key waits for that
\* transaction to end, and an update waits for the row's lock)
TxIds == 1..MaxInFlight

\* a slot without a request
IdleTx == [op |-> "idle", pc |-> "idle", role |-> "none", u |-> NoStudent,
           t |-> NoTeacher, c |-> 0, rows |-> {}, ss |-> {}, cs |-> {}]

NoTxs == [i \in TxIds |-> IdleTx]

\* the StudentCourses rows a transaction has inserted and not yet committed
Uncommitted(j) == IF txs[j].pc = "commit" THEN txs[j].rows ELSE {}

\* the insert of one of the rows waits: another open transaction has inserted
\* the same (studentId, courseId) and has not ended
InsertWaits(i, rows) ==
  \E j \in TxIds \ {i} : Uncommitted(j) \cap rows # {}

\* the request in slot i has ended: its slot is free again, and its response
\* and the calls it made on its transaction are the last ones
EndTx(i, response, log) ==
  /\ txs' = [txs EXCEPT ![i] = IdleTx]
  /\ resp' = response
  /\ calls' = log

\* the request in slot i goes on to its next step
StepTx(i, tx) ==
  /\ txs' = [txs EXCEPT ![i] = tx]
  /\ UNCHANGED <<resp, calls>>

\* what a step of an overlapping request leaves alone
TxFrame ==
  /\ UNCHANGED <<Lectures, now, assignmentVars, semesterVars, importVars, eventVars>>
  /\ UNCHANGED <<Blobs, VideoKeys, Destroyed, uploads, EContents, Modules>>

\* enrollCourse, first step: the transaction is opened, the course and the
\* student are read and their teachers compared
enrollCourseBegin(i, u, c) ==
  LET status == IF ~CourseExists(c) THEN 404
                ELSE IF u \notin StudentIds THEN 404
                ELSE IF Courses[c].teacherId # Students[u].teacherId THEN 403
                ELSE 0
  IN
  /\ txs[i].op = "idle"
  /\ TxFrame /\ UNCHANGED <<Students, Courses, StudentCourses>>
  /\ IF status # 0
     THEN EndTx(i, Reply("enrollCourse", status, "student"), <<"rollback">>)
     ELSE StepTx(i, [IdleTx EXCEPT !.op = "enrollCourse", !.pc = "find",
                                   !.role = "student", !.u = u, !.c = c])

\* enrollCourse: StudentCourse.findOne, "Already enrolled in this course"
enrollCourseFind(i) ==
  /\ txs[i].op = "enrollCourse" /\ txs[i].pc = "find"
  /\ TxFrame /\ UNCHANGED <<Students, Courses, StudentCourses>>
  /\ IF Enrolled(StudentCourses, txs[i].u, txs[i].c)
     THEN EndTx(i, Reply("enrollCourse", 400, "student"), <<"rollback">>)
     ELSE StepTx(i, [txs[i] EXCEPT !.pc = "create"])

\* enrollCourse: StudentCourse.create; a unique violation is caught, rolled
\* back and answered with 500
enrollCourseCreate(i) ==
  LET row == <<txs[i].u, txs[i].c>>
  IN
  /\ txs[i].op = "enrollCourse" /\ txs[i].pc = "create"
  /\ ~InsertWaits(i, {row})
  /\ TxFrame /\ UNCHANGED <<Students, Courses, StudentCourses>>
  /\ IF UniqueViolation(StudentCourses, txs[i].u, txs[i].c)
     THEN EndTx(i, Reply("enrollCourse", 500, "student"),
                <<"create", "rollback">>)
     ELSE StepTx(i, [txs[i] EXCEPT !.pc = "commit", !.rows = {row}])

\* enrollCourse: transaction.commit (ok: the commit succeeds)
enrollCourseCommit(i, ok) ==
  /\ txs[i].op = "enrollCourse" /\ txs[i].pc = "commit"
  /\ TxFrame /\ UNCHANGED <<Students, Courses>>
  /\ IF ok
     THEN /\ StudentCourses' = InsertRow(StudentCourses, txs[i].u, txs[i].c)
          /\ StepTx(i, [txs[i] EXCEPT !.pc = "respond"])
     ELSE /\ UNCHANGED StudentCourses
          /\ EndTx(i, Reply("enrollCourse", 500, "student"),
                   <<"create", "commitFailed", "rollback">>)

\* enrollCourse after the commit: the course is read for the response; when
\* the read fails the catch block calls rollback on the committed
\* transaction, which throws, and the error middleware answers 500
enrollCourseRespond(i, readOk) ==
  /\ txs[i].op = "enrollCourse" /\ txs[i].pc = "respond"
  /\ TxFrame /\ UNCHANGED <<Students, Courses, StudentCourses>>
  /\ IF readOk
     THEN EndTx(i, Reply("enrollCourse", 200, "student"),
                <<"create", "commit">>)
     ELSE EndTx(i, Reply("enrollCourse", 500, "student"),
                <<"create", "commit", "rollback">>)

\* the createCourse requests that have created their course and not ended
OpenCourses == {j \in TxIds : txs[j].op = "createCourse"}

\* createCourse, first step: the transaction is opened, the teacher is read
\* and Course.create inserts the course (not visible to others before the
\* commit)
createCourseBegin(i, caller) ==
  /\ txs[i].op = "idle"
  /\ Len(Courses) + Cardinality(OpenCourses) < MaxCourses
  /\ TxFrame /\ UNCHANGED <<Students, Courses, StudentCourses>>
  /\ IF caller \notin Teachers
     THEN EndTx(i, Reply("createCourse", 404, "teacher"), <<"rollback">>)
     ELSE StepTx(i, [IdleTx EXCEPT !.op = "createCourse", !.pc = "students",
                                   !.role = "teacher", !.t = caller])

\* createCourse: Student.findAll({ where: { teacherId } }) reads the
\* committed students of the teacher
createCourseStudents(i) ==
  /\ txs[i].op = "createCourse" /\ txs[i].pc = "students"
  /\ TxFrame /\ UNCHANGED <<Students, Courses, StudentCourses>>
  /\ StepTx(i, [txs[i] EXCEPT !.pc = "create",
                              !.ss = StudentsOfTeacher(txs[i].t)])

\* createCourse: one StudentCourse.create per student that was read; the
\* course is new, so no insert meets another row
createCourseCreate(i) ==
  /\ txs[i].op = "createCourse" /\ txs[i].pc = "create"
  /\ TxFrame /\ UNCHANGED <<Students, Courses, StudentCourses>>
  /\ StepTx(i, [txs[i] EXCEPT !.pc = "commit"])

\* createCourse: transaction.commit (ok: the commit succeeds) and the read of
\* the course for the response (readOk)
createCourseCommit(i, ok, readOk) ==
  /\ txs[i].op = "createCourse" /\ txs[i].pc = "commit"
  /\ TxFrame /\ UNCHANGED Students
  /\ IF ok
     THEN /\ Courses' = Append(Courses, [teacherId |-> txs[i].t])
          /\ StudentCourses' =
               InsertStudents(StudentCourses, txs[i].ss, Len(Courses) + 1)
          /\ IF readOk
             THEN EndTx(i, Reply("createCourse", 201, "teacher"),
                        <<"create", "commit">>)
             ELSE EndTx(i, Reply("createCourse", 500, "teacher"),
                        <<"create", "commit", "rollback">>)
     ELSE /\ UNCHANGED <<Courses, StudentCourses>>
          /\ EndTx(i, Reply("createCourse", 400, "teacher"),
                   <<"create", "commitFailed", "rollback">>)

\* assignStudent, first step: the transaction is opened, the teacher and the
\* student are read
assignStudentBegin(i, role, caller, studentId, bodyTeacherId) ==
  LET teacher == AssignTeacher(role, caller, bodyTeacherId)
      student == AssignStudentRow(role, studentId)
  IN
  /\ txs[i].op = "idle"
  /\ TxFrame /\ UNCHANGED <<Students, Courses, StudentCourses>>
  /\ IF teacher = NULL \/ student = NULL
     THEN EndTx(i, Reply("assignStudent", 404, role), <<"rollback">>)
     ELSE StepTx(i, [IdleTx EXCEPT !.op = "assignStudent", !.pc = "update",
                                   !.role = role, !.u = student,
                                   !.t = teacher])

\* another open transaction has updated the student's row and holds its lock
UpdateWaits(i) ==
  \E j \in TxIds \ {i} :
    /\ txs[j].op = "assignStudent" /\ txs[j].u = txs[i].u
    /\ txs[j].pc \in {"courses", "create", "commit"}

\* assignStudent: student.update({ teacherId }) inside the transaction
assignStudentUpdate(i) ==
  /\ txs[i].op = "assignStudent" /\ txs[i].pc = "update"
  /\ ~UpdateWaits(i)
  /\ TxFrame /\ UNCHANGED <<Students, Courses, StudentCourses>>
  /\ StepTx(i, [txs[i] EXCEPT !.pc = "courses"])

\* assignStudent: Course.findAll({ where: { teacherId } }) reads the
\* committed courses of the teacher
assignStudentCourses(i) ==
  /\ txs[i].op = "assignStudent" /\ txs[i].pc = "courses"
  /\ TxFrame /\ UNCHANGED <<Students, Courses, StudentCourses>>
  /\ StepTx(i, [txs[i] EXCEPT !.pc = "create",
                              !.cs = CoursesOfTeacher(txs[i].t)])

\* assignStudent: one StudentCourse.create per course that was read; a unique
\* violation is caught, rolled back and answered with 500
assignStudentCreate(i) ==
  LET rows == {<<txs[i].u, c>> : c \in txs[i].cs}
  IN
  /\ txs[i].op = "assignStudent" /\ txs[i].pc = "create"
  /\ ~InsertWaits(i, rows)
  /\ TxFrame /\ UNCHANGED <<Students, Courses, StudentCourses>>
  /\ IF AssignViolates(StudentCourses, txs[i].u, txs[i].cs)
     THEN EndTx(i, Reply("assignStudent", 500, txs[i].role),
                <<"update", "create", "rollback">>)
     ELSE StepTx(i, [txs[i] EXCEPT !.pc = "commit", !.rows = rows])

\* assignStudent: transaction.commit (ok: the commit succeeds)
assignStudentCommit(i, ok) ==
  /\ txs[i].op = "assignStudent" /\ txs[i].pc = "commit"
  /\ TxFrame /\ UNCHANGED Courses
  /\ IF ok
     THEN /\ Students' = [Students EXCEPT ![txs[i].u].teacherId = txs[i].t]
          /\ StudentCourses' =
               InsertCourses(StudentCourses, txs[i].u, txs[i].cs)
          /\ EndTx(i, Response("assignStudent", 200, txs[i].role, NoLectures,
                               Cardinality(txs[i].cs)),
                   <<"update", "create", "commit">>)
     ELSE /\ UNCHANGED <<Students, StudentCourses>>
          /\ EndTx(i, Reply("assignStudent", 500, txs[i].role),
                   <<"update", "create", "commitFailed", "rollback">>)

\* ------------------------------------------------------------ user import
\* the rows of the uploaded sheet as the upload middleware hands them over
\* (unvalidated): email in any case, any role, teacherEmail possibly missing
Emails == {"t", "T", "s", "u"}
RowRoles == {"teacher", "student", "other"}
NoEmail == "none"

\* email.toLowerCase()
Lower(e) == IF e = "T" THEN "t" ELSE e

SheetRows ==
  [email : Emails, role : {"teacher", "other"}, teacherEmail : {NoEmail}]
  \cup [email : Emails, role : {"student"}, teacherEmail : Emails \cup {NoEmail}]

\* req.excelData: up to MaxBatch rows
Batches == UNION {[1..n -> SheetRows] : n \in 0..MaxBatch}

IsTeacherRow(row) == row.role = "teacher"
IsStudentRow(row) == row.role = "student"

\* User.findOne({ where: { email } }) inside the transaction
UserExists(users, email) == \E u \in users : u.email = email

\* the loop over the teacher rows; acc holds the tables as the transaction
\* sees them, the number of results, and ok = no row has thrown
RECURSIVE ImportTeachers(_, _)
ImportTeachers(rows, acc) ==
  IF rows = <<>> \/ ~acc.ok THEN acc
  ELSE LET email == Lower(Head(rows).email)
       IN IF UserExists(acc.users, email)
          THEN [acc EXCEPT !.ok = FALSE]
          ELSE ImportTeachers(
                 Tail(rows),
                 [acc EXCEPT !.users = @ \cup {[email |-> email, role |-> "teacher"]},
                             !.teachers = @ \cup {email},
                             !.count = @ + 1])

\* the loop over the student rows: a missing teacherEmail throws, then the
\* duplicate check, then the teacher is looked up (teacherMap or Teacher.findOne)
RECURSIVE ImportStudents(_, _)
ImportStudents(rows, acc) ==
  IF rows = <<>> \/ ~acc.ok THEN acc
  ELSE LET email == Lower(Head(rows).email)
           teacherEmail == Lower(Head(rows).teacherEmail)
       IN IF Head(rows).teacherEmail = NoEmail
          THEN [acc EXCEPT !.ok = FALSE]
          ELSE IF UserExists(acc.users, email)
          THEN [acc EXCEPT !.ok = FALSE]
          ELSE IF teacherEmail \notin acc.teachers
          THEN [acc EXCEPT !.ok = FALSE]
          ELSE ImportStudents(
                 Tail(rows),
                 [acc EXCEPT !.users = @ \cup {[email |-> email, role |-> "student"]},
                             !.students = @ \cup {[email |-> email,
                                                   teacherEmail |-> teacherEmail]},
                             !.count = @ + 1])

\* the rows created before the failure stay (creates made outside the
\* transaction)
ImportRolledBack_Autocommit(acc) ==
  /\ Users' = acc.users
  /\ TeacherRows' = acc.teachers
  /\ StudentRows' = acc.students

\* transaction.rollback(): the rows the import has created are gone
ImportRolledBack(acc) == UNCHANGED <<Users, TeacherRows, StudentRows>>

\* POST /upload-users, up to the check of req.excelData: the transaction is
\* opened; without rows the handler returns 400 with no call on it
uploadUsers(batch) ==
  /\ upload = <<>>
  /\ UNCHANGED <<Students, Courses, StudentCourses, Lectures, now>>
  /\ UNCHANGED <<assignmentVars, semesterVars, txVars, eventVars>>
  /\ UNCHANGED <<Blobs, VideoKeys, Destroyed, uploads, EContents, Modules>>
  /\ UNCHANGED <<Users, TeacherRows, StudentRows>>
  /\ IF batch = <<>>
     THEN /\ resp' = Reply("uploadUsers", 400, "admin")
          /\ calls' = <<>>
          /\ UNCHANGED upload
     ELSE /\ upload' = batch
          /\ UNCHANGED <<resp, calls>>

\* uploadUsers from the loops over the rows to the response (dbOk: no create
\* and not the commit fails)
uploadUsersRows(dbOk) ==
  LET start == [ok |-> TRUE, users |-> Users, teachers |-> TeacherRows,
                students |-> StudentRows, count |-> 0]
      result == ImportStudents(SelectSeq(upload, IsStudentRow),
                               ImportTeachers(SelectSeq(upload, IsTeacherRow),
                                              start))
      created == IF result.count > 0 THEN <<"create">> ELSE <<>>
  IN
  /\ upload # <<>>
  /\ upload' = <<>>
  /\ UNCHANGED <<Students, Courses, StudentCourses, Lectures, now>>
  /\ UNCHANGED <<assignmentVars, semesterVars, txVars, eventVars>>
  /\ UNCHANGED <<Blobs, VideoKeys, Destroyed, uploads, EContents, Modules>>
  /\ IF ~result.ok \/ ~dbOk
     THEN /\ resp' = Reply("uploadUsers", 400, "admin")
          /\ calls' = created \o <<"rollback">>
          /\ ImportRolledBack(result)
     ELSE /\ Users' = result.users
          /\ TeacherRows' = result.teachers
          /\ StudentRows' = result.students
          /\ calls' = created \o <<"commit">>
          /\ resp' = Response("uploadUsers", 201, "admin", NoLectures,
                              result.count)

\* ----------------------------------------------------------------- events
\* the roles of a user, and the Authorization header of a request: a valid
\* bearer token, a token that does not verify, or no header
UserRoles == {"admin", "teacher", "student"}
Tokens == {"valid", "invalid", "none"}

\* the event router: does the route run auth, does it run checkRole, and
\* with which allow-list
EventRoutes ==
  [createEvent |-> [auth |-> TRUE, checked |-> TRUE, roles |-> {"admin"}],
   updateEvent |-> [auth |-> TRUE, checked |-> FALSE, roles |-> {}],
   deleteEvent |-> [auth |-> TRUE, checked |-> FALSE, roles |-> {}]]

\* checkRole(roles): the role of req.user is on the list
CheckRole(roles, role) == role \in roles

\* the middleware of a route in order: 401 from auth, 403 from checkRole, 0
\* when the request reaches the handler
Guard(route, token, role) ==
  IF route.auth /\ token # "valid" THEN 401
  ELSE IF route.checked /\ ~CheckRole(route.roles, role) THEN 403
  ELSE 0

\* req.body of an event: name (NULL when absent) and link (a URL, a string
\* that is no URL, or absent)
EventNames == {1, 2}
EventLinks == {"http", "https"}
BodyLinks == EventLinks \cup {"bad", "none"}

\* the row of a destroyed event
NoEvent == [name |-> NULL, link |-> "none", exists |-> FALSE]

\* Event.findByPk
EventExists(id) == id \in DOMAIN Events /\ Events[id].exists

\* POST /events
createEvent(token, role, name, link) ==
  LET guard == Guard(EventRoutes.createEvent, token, role)
  IN
  /\ Len(Events) < MaxEvents
  /\ UNCHANGED <<Students, Courses, StudentCourses, Lectures, now>>
  /\ UNCHANGED <<assignmentVars, semesterVars, blobVars, txVars, importVars>>
  /\ IF guard # 0
     THEN resp' = Reply("createEvent", guard, role) /\ UNCHANGED Events
     ELSE IF name = NULL \/ link = "none"
     THEN resp' = Reply("createEvent", 400, role) /\ UNCHANGED Events
     ELSE IF link \notin EventLinks
     THEN resp' = Reply("createEvent", 400, role) /\ UNCHANGED Events
     ELSE /\ Events' = Append(Events, [name |-> name, link |-> link,
                                       exists |-> TRUE])
          /\ resp' = Reply("createEvent", 201, role)

\* PUT /events/:id
updateEvent(token, role, id, name, link) ==
  LET guard == Guard(EventRoutes.updateEvent, token, role)
  IN
  /\ UNCHANGED <<Students, Courses, StudentCourses, Lectures, now>>
  /\ UNCHANGED <<assignmentVars, semesterVars, blobVars, txVars, importVars>>
  /\ IF guard # 0
     THEN resp' = Reply("updateEvent", guard, role) /\ UNCHANGED Events
     ELSE IF ~EventExists(id)
     THEN resp' = Reply("updateEvent", 404, role) /\ UNCHANGED Events
     ELSE IF link # "none" /\ link \notin EventLinks
     THEN resp' = Reply("updateEvent", 400, role) /\ UNCHANGED Events
     ELSE /\ Events' = [Events EXCEPT
                          ![id].name = IF name # NULL THEN name ELSE @,
                          ![id].link = IF link # "none" THEN link ELSE @]
          /\ resp' = Reply("updateEvent", 200, role)

\* DELETE /events/:id
deleteEvent(token, role, id) ==
  LET guard == Guard(EventRoutes.deleteEvent, token, role)
  IN
  /\ UNCHANGED <<Students, Courses, StudentCourses, Lectures, now>>
  /\ UNCHANGED <<assignmentVars, semesterVars, blobVars, txVars, importVars>>
  /\ IF guard # 0
     THEN resp' = Reply("deleteEvent", guard, role) /\ UNCHANGED Events
     ELSE IF ~EventExists(id)
     THEN resp' = Reply("deleteEvent", 404, role) /\ UNCHANGED Events
     ELSE /\ Events' = [Events EXCEPT ![id] = NoEvent]
          /\ resp' = Reply("deleteEvent", 200, role)

\* ------------------------------------------------------- lecture router
\* a segment of a route path: a parameter (":courseId") or a literal
P(name) == [param |-> name, text |-> ""]
L(text) == [param |-> "", text |-> text]

\* the lecture router in the order of its registrations
LectureRoutes ==
  << [method |-> "POST", path |-> <<P("courseId")>>,
      handler |-> "createLecture"],
     [method |-> "PUT", path |-> <<P("lectureId")>>,
      handler |-> "updateLecture"],
     [method |-> "GET", path |-> <<P("lectureId")>>,
      handler |-> "getLectureById"],
     [method |-> "GET", path |-> <<P("courseId"), L("lectures")>>,
      handler |-> "getCourseLectures"],
     [method |-> "GET",
      path |-> <<L("student"), P("courseId"), L("lectures")>>,
      handler |-> "getCourseLecturesByStudents"],
     [method |-> "GET",
      path |-> <<P("courseId"), L("lectures"), P("lectureId")>>,
      handler |-> "getLectureById"],
     [method |-> "POST", path |-> <<P("courseId"), L("lectures")>>,
      handler |-> "createLecture"],
     [method |-> "PUT",
      path |-> <<P("courseId"), L("lectures"), P("lectureId")>>,
      handler |-> "updateLecture"],
     [method |-> "DELETE",
      path |-> <<P("courseId"), L("lectures"), P("lectureId")>>,
      handler |-> "deleteLecture"],
     [method |-> "PUT",
      path |-> <<P("courseId"), L("lectures"), P("lectureId"), L("review")>>,
      handler |-> "updateLectureReviewStatus"],
     [method |-> "PUT",
      path |-> <<P("courseId"), L("lectures"), L("review-all")>>,
      handler |-> "updateAllLectureReviewStatuses"] >>

\* a route matches a request: same method, and every segment of the path is
\* matched by a parameter or is the literal
Matches(route, method, path) ==
  /\ route.method = method
  /\ Len(route.path) = Len(path)
  /\ \A i \in DOMAIN path :
       route.path[i].param # "" \/ route.path[i].text = path[i]

NoRoute == [method |-> "none", path |-> <<>>, handler |-> "none"]

\* the first registered route that matches
Dispatch(method, path) ==
  LET hits == {i \in DOMAIN LectureRoutes :
                 Matches(LectureRoutes[i], method, path)}
  IN IF hits = {} THEN NoRoute
     ELSE LectureRoutes[CHOOSE i \in hits : \A j \in hits : i <= j]

\* req.params[name] ("" when the route has no such parameter)
Param(route, path, name) ==
  LET at == {i \in DOMAIN path : route.path[i].param = name}
  IN IF at = {} THEN "" ELSE path[CHOOSE i \in at : TRUE]

\* the text of the ids (ids are UUIDs in the database)
IdText == <<"1", "2">>

\* the id a path segment names, NULL when the segment is no well-formed id
ParseId(seg) ==
  IF \E i \in DOMAIN IdText : IdText[i] = seg
  THEN CHOOSE i \in DOMAIN IdText : IdText[i] = seg
  ELSE NULL

\* a handler that queries by a malformed id: the teacher lookup comes first,
\* the query by id throws and the catch answers 500
MalformedId(op, caller) ==
  /\ resp' = Reply(op, IF caller \notin Teachers THEN 404 ELSE 500, "teacher")
  /\ UNCHANGED <<Students, Courses, StudentCourses, Lectures, now>>
  /\ UNCHANGED <<assignmentVars, semesterVars, txVars, importVars, eventVars, blobVars>>

\* a PUT request of a teacher to the lecture router
LecturePut(caller, path, args) ==
  LET route == Dispatch("PUT", path)
      lectureId == IF Param(route, path, "lectureId") # ""
                   THEN Param(route, path, "lectureId")
                   ELSE Param(route, path, "id")
      l == ParseId(lectureId)
      c == ParseId(Param(route, path, "courseId"))
  IN
  IF route.handler = "updateLecture"
  THEN IF l = NULL THEN MalformedId("updateLecture", caller)
       ELSE updateLecture(caller, l, args)
  ELSE IF route.handler = "updateLectureReviewStatus"
  THEN IF l = NULL THEN MalformedId("updateLectureReviewStatus", caller)
       ELSE updateLectureReviewStatus(caller, l, args)
  ELSE IF route.handler = "updateAllLectureReviewStatuses"
  THEN IF c = NULL THEN MalformedId("updateAllLectureReviewStatuses", caller)
       ELSE updateAllLectureReviewStatuses(caller, c)
  ELSE /\ resp' = Reply("none", 404, "teacher")
       /\ UNCHANGED <<Students, Courses, StudentCourses, Lectures, now>>
       /\ UNCHANGED <<assignmentVars, semesterVars, txVars, importVars, eventVars, blobVars>>

\* ------------------------------------------------------------------ time
Tick ==
  /\ now < MaxTime * TickDays
  /\ now' = now + TickDays
  /\ UNCHANGED <<Students, Courses, StudentCourses, Lectures, resp>>
  /\ UNCHANGED <<assignmentVars, semesterVars, txVars, importVars, eventVars, blobVars>>

\* ------------------------------------------------------- specifications
NoRows == [p \in StudentIds \X CourseIds |-> 0]

\* the state after the user import: every student has a teacher
\* (Students.teacherId is NOT NULL), no course exists yet
Init ==
  /\ Students \in [StudentIds -> [teacherId : Teachers]]
  /\ Courses = <<>>
  /\ StudentCourses = NoRows
  /\ Lectures = <<>>
  /\ now = 0
  /\ resp = NoResp
  /\ Assignments = <<>>
  /\ pending = {}
  /\ Semesters = <<>>
  /\ Blobs = {}
  /\ VideoKeys = [l \in LectureIds |-> NULL]
  /\ Destroyed = {}
  /\ uploads = 0
  /\ calls = <<>>
  /\ EContents = {}
  /\ Modules = <<>>
  /\ txs = NoTxs
  /\ Users = {}
  /\ TeacherRows = {}
  /\ StudentRows = {}
  /\ Events = <<>>
  /\ upload = <<>>

\* the same import with the students spread over the teachers in turn
InitLecture ==
  /\ Init
  /\ Students = [s \in StudentIds |->
                   [teacherId |-> IF s % 2 = 1 THEN 1 ELSE 2]]

Roles == {"teacher", "student"}

CallerOf(role) == IF role = "teacher" THEN TeacherUsers ELSE StudentUsers

\* bodies of the lecture updates
UpdateArgs == {Args(f, d) : f \in BodyFlags, d \in BodyDeadlines \cup {NULL}}
ReviewArgs == {a \in UpdateArgs : a.isReviewed # "absent"}

\* the enrollment requests
EnrollNext ==
  \/ \E u \in StudentUsers, c \in CourseIds : enrollCourse(u, c)
  \/ \E u \in StudentUsers, c \in CourseIds : unenrollCourse(u, c)
  \/ \E caller \in TeacherUsers, s \in StudentUsers :
       assignStudent("teacher", caller, s, NULL)
  \/ \E s \in StudentUsers, t \in TeacherUsers \cup {NULL} :
       assignStudent("admin", NoTeacher, s, t)
  \/ \E caller \in TeacherUsers, ok \in BOOLEAN, readOk \in BOOLEAN :
       createCourse(caller, ok, <<>>, readOk)
  \/ \E role \in Roles : \E caller \in CallerOf(role), c \in CourseIds :
       getCourseById(role, caller, c)

\* the lecture requests
LectureNext ==
  \/ \E caller \in Teachers, b \in LectureBodies :
       createCourse(caller, TRUE, <<b>>, TRUE)
  \/ \E caller \in TeacherUsers, c \in CourseIds, b \in LectureBodies :
       createLecture(caller, c, b)
  \/ \E caller \in TeacherUsers, l \in LectureIds, a \in UpdateArgs :
       updateLecture(caller, l, a)
  \/ \E caller \in TeacherUsers, l \in LectureIds, a \in ReviewArgs :
       updateLectureReviewStatus(caller, l, a)
  \/ \E caller \in TeacherUsers, c \in CourseIds :
       updateAllLectureReviewStatuses(caller, c)
  \/ \E role \in Roles : \E caller \in CallerOf(role), l \in LectureIds :
       getLectureById(role, caller, l)
  \/ \E caller \in TeacherUsers, c \in CourseIds : getCourseLectures(caller, c)
  \/ \E caller \in StudentUsers, c \in CourseIds :
       getCourseLecturesByStudents(caller, c)
  \/ \E role \in Roles : \E caller \in CallerOf(role), c \in CourseIds :
       getCourseById(role, caller, c)
  \/ Tick

\* ids a grading request may name: one more than the submissions of
\* NumStudents students
SubmissionIds == 1..(NumStudents + 1)

\* assignments: every student belongs to teacher 1, who created course 1 (all
\* students were enrolled by that); teacher 2 created course 2
InitSubmit ==
  /\ Students = [s \in StudentIds |-> [teacherId |-> 1]]
  /\ Courses = <<[teacherId |-> 1], [teacherId |-> 2]>>
  /\ StudentCourses = [p \in StudentIds \X CourseIds |->
                         IF p[2] = 1 THEN 1 ELSE 0]
  /\ Lectures = <<>>
  /\ now = 0
  /\ resp = NoResp
  /\ Assignments = <<>>
  /\ pending = {}
  /\ Semesters = <<>>
  /\ Blobs = {}
  /\ VideoKeys = [l \in LectureIds |-> NULL]
  /\ Destroyed = {}
  /\ uploads = 0
  /\ calls = <<>>
  /\ EContents = {}
  /\ Modules = <<>>
  /\ txs = NoTxs
  /\ Users = {}
  /\ TeacherRows = {}
  /\ StudentRows = {}
  /\ Events = <<>>
  /\ upload = <<>>

\* the assignment requests; a student sends a submission when no other
\* submission is being uploaded
SubmitNext ==
  \/ \E c \in CourseIds, d \in DueDates, p \in BodyPoints :
       createAssignment(c, d, p)
  \/ \E caller \in TeacherUsers, a \in AssignmentIds, f \in BodyFlags :
       updateAssignment(caller, a, f)
  \/ \E u \in StudentUsers, a \in AssignmentIds, f \in SubmitFiles :
       pending = {} /\ submitAssignment(u, a, f)
  \/ \E r \in pending, ok \in BOOLEAN : submitAssignmentSave(r, ok)
  \/ \E caller \in TeacherUsers, a \in AssignmentIds, sub \in SubmissionIds,
        g \in BodyGrades, fb \in Feedbacks :
       gradeSubmission(caller, a, sub, g, fb)
  \/ Tick

\* submissions sent while others are still being uploaded
SubmitRaceNext ==
  \/ \E c \in CourseIds, d \in DueDates, p \in BodyPoints :
       createAssignment(c, d, p)
  \/ \E u \in StudentUsers, a \in AssignmentIds, f \in SubmitFiles :
       submitAssignment(u, a, f)
  \/ \E r \in pending, ok \in BOOLEAN : submitAssignmentSave(r, ok)

\* the semester requests of an admin
SemesterNext ==
  \/ \E n \in SemesterNames \cup {NULL}, sd \in BodyDates, ed \in BodyDates :
       createSemester(n, sd, ed)
  \/ \E id \in SemesterIds, n \in SemesterNames \cup {NULL},
        sd \in BodyDates, ed \in BodyDates :
       updateSemester(id, n, sd, ed)

\* the requests that carry or delete a lecture video
BlobNext ==
  \/ \E caller \in Teachers : createCourse(caller, TRUE, <<>>, TRUE)
  \/ \E caller \in TeacherUsers, c \in CourseIds, f \in VideoFiles,
        uploadOk \in BOOLEAN, dbOk \in BOOLEAN :
       createLectureWithVideo(caller, c, PlainBody, f, uploadOk, dbOk)
  \/ \E caller \in TeacherUsers, l \in LectureIds, f \in VideoFiles,
        deleteOk \in BOOLEAN, uploadOk \in BOOLEAN, dbOk \in BOOLEAN :
       updateLectureWithVideo(caller, l, Args("absent", NULL), f,
                              deleteOk, uploadOk, dbOk)
  \/ \E caller \in TeacherUsers, l \in LectureIds,
        deleteOk \in BOOLEAN, dbOk \in BOOLEAN :
       deleteLecture(caller, l, deleteOk, dbOk)
  \/ \E caller \in TeacherUsers, c \in CourseIds, fieldsOk \in BOOLEAN,
        f \in ModuleFiles, uploadOk \in BOOLEAN, d \in DbFailures,
        readOk \in BOOLEAN :
       createEContent(caller, c, fieldsOk, f, uploadOk, d, readOk)

\* enrollment requests that overlap: courses are created, students enroll
\* (step by step, up to MaxInFlight requests at a time) and unenroll
EnrollRaceNext ==
  \/ \E caller \in Teachers : createCourse(caller, TRUE, <<>>, TRUE)
  \/ \E u \in StudentIds, c \in CourseIds : unenrollCourse(u, c)
  \/ \E i \in TxIds, u \in StudentUsers, c \in CourseIds :
       enrollCourseBegin(i, u, c)
  \/ \E i \in TxIds : enrollCourseFind(i)
  \/ \E i \in TxIds : enrollCourseCreate(i)
  \/ \E i \in TxIds, ok \in BOOLEAN : enrollCourseCommit(i, ok)
  \/ \E i \in TxIds, readOk \in BOOLEAN : enrollCourseRespond(i, readOk)

\* course creations and assignments that overlap, step by step, up to
\* MaxInFlight requests at a time
AssignRaceNext ==
  \/ \E i \in TxIds, caller \in TeacherUsers : createCourseBegin(i, caller)
  \/ \E i \in TxIds : createCourseStudents(i)
  \/ \E i \in TxIds : createCourseCreate(i)
  \/ \E i \in TxIds, ok \in BOOLEAN, readOk \in BOOLEAN :
       createCourseCommit(i, ok, readOk)
  \/ \E i \in TxIds, caller \in TeacherUsers, s \in StudentUsers :
       assignStudentBegin(i, "teacher", caller, s, NULL)
  \/ \E i \in TxIds, s \in StudentUsers, t \in TeacherUsers \cup {NULL} :
       assignStudentBegin(i, "admin", NoTeacher, s, t)
  \/ \E i \in TxIds : assignStudentUpdate(i)
  \/ \E i \in TxIds : assignStudentCourses(i)
  \/ \E i \in TxIds : assignStudentCreate(i)
  \/ \E i \in TxIds, ok \in BOOLEAN : assignStudentCommit(i, ok)

SpecAssignRace == Init /\ [][AssignRaceNext]_vars

\* enrollment: students, courses and enrollment rows change, no lectures
Spec == Init /\ [][EnrollNext]_vars

\* lecture review: courses are created with their rosters, lectures are
\* created, updated, read and swept while time passes
SpecLecture == InitLecture /\ [][LectureNext]_vars

\* assignments: created and updated by teachers, submitted to by students
\* (several submits may be in flight) and graded, while time passes
SpecSubmit == InitSubmit /\ [][SubmitNext]_vars

\* lecture videos: uploads, replacements and deletions that may fail
SpecBlob == InitLecture /\ [][BlobNext]_vars

\* semesters are created and updated
SpecSemester == Init /\ [][SemesterNext]_vars

\* submissions: up to MaxInFlight submit requests overlap
SpecSubmitRace == InitSubmit /\ [][SubmitRaceNext]_vars

\* the segments of a request path, and the paths of one to four segments
\* that requests name
PathSegments == {"1", "2", "lectures", "review", "review-all"}
Paths ==
  UNION {{<<a>>, <<a, b>>, <<a, "lectures", b>>, <<a, "lectures", b, "review">>} :
           <<a, b>> \in PathSegments \X PathSegments}

\* PUT requests to the lecture router, on courses with lectures
RouteNext ==
  \/ \E caller \in Teachers, b \in LectureBodies :
       createCourse(caller, TRUE, <<b>>, TRUE)
  \/ \E caller \in TeacherUsers, path \in Paths, a \in ReviewArgs :
       LecturePut(caller, path, a)
  \/ Tick

SpecRoute == InitLecture /\ [][RouteNext]_vars

\* the event requests of any caller
EventIds == 1..MaxEvents

EventNext ==
  \/ \E token \in Tokens, role \in UserRoles, n \in EventNames \cup {NULL},
        l \in BodyLinks :
       createEvent(token, role, n, l)
  \/ \E token \in Tokens, role \in UserRoles, id \in EventIds,
        n \in EventNames \cup {NULL}, l \in BodyLinks :
       updateEvent(token, role, id, n, l)
  \/ \E token \in Tokens, role \in UserRoles, id \in EventIds :
       deleteEvent(token, role, id)

\* events are created, updated and deleted
SpecEvent == Init /\ [][EventNext]_vars

\* the imports of an admin
ImportNext ==
  \/ \E batch \in Batches : uploadUsers(batch)
  \/ \E dbOk \in BOOLEAN : uploadUsersRows(dbOk)

\* user import: sheets of users are uploaded one after the other
SpecImport == Init /\ [][ImportNext]_vars

\* enrollment with overlapping enroll requests
SpecEnrollRace == Init /\ [][EnrollRaceNext]_vars

\* ------------------------------------------------------------ properties
\* does the student's teacher own the course / is there a row (s, c)
TeacherMatches(s, c) == Students[s].teacherId = Courses[c].teacherId
RowCount(s, c) == StudentCourses[<<s, c>>]

\* C1: every enrollment row (s, c) has s.teacherId = c.teacherId, whatever
\* sequence of enroll, unenroll, course creation and assignment produced it
C1_RowsMatchTeacher ==
  \A s \in StudentIds, c \in DOMAIN Courses :
    RowCount(s, c) > 0 => TeacherMatches(s, c)

\* C2: there is at most one enrollment row for any pair (studentId, courseId)
C2_AtMostOneRow ==
  \A s \in StudentIds, c \in CourseIds : RowCount(s, c) <= 1

\* an assignment was turned down by the unique constraint while rows exist
C2_Witness ==
  /\ resp.op = "assignStudent" /\ resp.status = 500
  /\ \E s \in StudentIds, c \in DOMAIN Courses : RowCount(s, c) = 1

\* C3: for an existing student s and an existing course c, Enroll(s, c)
\* succeeds, inserting exactly one row (s, c), if and only if s.teacherId =
\* c.teacherId and no row (s, c) existed; otherwise it inserts nothing
C3_EnrollIff ==
  [][\A u \in StudentIds, c \in DOMAIN Courses :
       enrollCourse(u, c) =>
         LET ok == TeacherMatches(u, c) /\ RowCount(u, c) = 0
         IN /\ (resp'.status = 200) <=> ok
            /\ StudentCourses' =
                 IF ok THEN [StudentCourses EXCEPT ![<<u, c>>] = 1]
                 ELSE StudentCourses]_vars

\* an enrollment succeeded (after an unenrollment: creation and assignment
\* enroll by themselves)
C3_Witness ==
  /\ resp.op = "enrollCourse" /\ resp.status = 200
  /\ \E s \in StudentIds, c \in DOMAIN Courses : RowCount(s, c) = 1

C5_RosterIsTeachersStudents ==
  [][\A t \in Teachers :
       createCourse(t, TRUE, <<>>, TRUE) =>
         LET c == Len(Courses')
         IN /\ resp'.status = 201
            /\ c = Len(Courses) + 1
            /\ Courses'[c].teacherId = t
            /\ \A s \in StudentIds :
                 StudentCourses'[<<s, c>>] =
                   IF Students'[s].teacherId = t THEN 1 ELSE 0]_vars

\* a course was created whose teacher has a student, while another student
\* belongs to the other teacher
C5_Witness ==
  /\ resp.op = "createCourse" /\ resp.status = 201
  /\ \E s1, s2 \in StudentIds :
       /\ RowCount(s1, Len(Courses)) = 1
       /\ Students[s2].teacherId # Courses[Len(Courses)].teacherId
       /\ RowCount(s2, Len(Courses)) = 0

\* C6: AssignStudentToTeacher(s, t) by an admin sets s.teacherId to t and
\* leaves s enrolled in every course of t, not failing on the courses in which
\* s already has a row
C6_AssignSkipsExisting ==
  [][\A s \in StudentIds, t \in Teachers :
       assignStudent("admin", NoTeacher, s, t) =>
         /\ resp'.status = 200
         /\ Students'[s].teacherId = t
         /\ \A c \in DOMAIN Courses :
              Courses[c].teacherId = t => StudentCourses'[<<s, c>>] = 1]_vars

\* the lecture's deadline is set and has passed
DeadlinePassed(lecture) ==
  lecture.reviewDeadline # NULL /\ now >= lecture.reviewDeadline

\* C7 as stated: once a lecture's stored isReviewed is true, no operation sets
\* it back to false
C7_Monotonic ==
  [][\A l \in DOMAIN Lectures :
       Lectures[l].isReviewed => Lectures'[l].isReviewed]_vars

\* C7 amended: a stored isReviewed = true goes back to false only by a
\* teacher's lecture update or review-status update whose body carries
\* isReviewed = false and that leaves the lecture's reviewDeadline unset or in
\* the future; reads, the bulk review and updates of overdue lectures never
\* set it back
C7_BackOnlyByTeacherUpdate ==
  [][\A l \in DOMAIN Lectures :
       (Lectures[l].isReviewed /\ ~Lectures'[l].isReviewed) =>
         /\ \E t \in Teachers, a \in UpdateArgs :
              /\ a.isReviewed = "false"
              /\ updateLecture(t, l, a) \/ updateLectureReviewStatus(t, l, a)
         /\ resp'.status = 200
         /\ \/ Lectures'[l].reviewDeadline = NULL
            \/ now < Lectures'[l].reviewDeadline]_vars

\* a review-status update answered with a lecture that is reviewed and whose
\* deadline has passed
C7_Witness ==
  /\ resp.op = "updateLectureReviewStatus" /\ resp.status = 200
  /\ \E l \in DOMAIN Lectures :
       /\ resp.lectures = {[id |-> l, isReviewed |-> TRUE]}
       /\ Lectures[l].isReviewed /\ DeadlinePassed(Lectures[l])

\* C8: for a lecture l whose reviewDeadline is set and has passed, every read
\* of l by a caller with access to it (single read, list read, course detail;
\* the course's teacher or an enrolled student) returns l with isReviewed true
C8_OverdueReadsReviewed ==
  [][\A l \in DOMAIN Lectures :
       LET c == Lectures[l].courseId
           shown == [id |-> l, isReviewed |-> TRUE]
       IN DeadlinePassed(Lectures[l]) =>
            /\ \A t \in Teachers :
                 (/\ Courses[c].teacherId = t
                  /\ \/ getLectureById("teacher", t, l)
                     \/ getCourseLectures(t, c)
                     \/ getCourseById("teacher", t, c))
                 => shown \in resp'.lectures
            /\ \A u \in StudentIds :
                 (/\ RowCount(u, c) > 0
                  /\ \/ getLectureById("student", u, l)
                     \/ getCourseLecturesByStudents(u, c)
                     \/ getCourseById("student", u, c))
                 => shown \in resp'.lectures]_vars

\* C9: no response to a student-role caller contains a lecture whose
\* isReviewed is false
C9_StudentsSeeReviewedOnly ==
  resp.role = "student" => \A v \in resp.lectures : v.isReviewed

C11_DefaultDeadlineEveryPath ==
  [][\A t \in Teachers, b \in LectureBodies :
       b.reviewDeadline = NULL =>
         /\ \A c \in DOMAIN Courses :
              (Courses[c].teacherId = t /\ createLecture(t, c, b)) =>
                Lectures'[Len(Lectures')].reviewDeadline = now + ReviewDays
         /\ createCourse(t, TRUE, <<b>>, TRUE) =>
              Lectures'[Len(Lectures')].reviewDeadline = now + ReviewDays]_vars

\* the submissions of student s embedded in assignment a
SubmissionsOf(a, s) ==
  {i \in DOMAIN Assignments[a].submissions :
     Assignments[a].submissions[i].student = s}

\* C12: after any sequence of Submit operations there is at most one
\* submission per (assignmentId, studentId); a resubmission never creates a
\* second one
C12_OneSubmissionPerStudent ==
  \A a \in DOMAIN Assignments, s \in StudentIds :
    Cardinality(SubmissionsOf(a, s)) <= 1

\* C13: after every successful Submit the stored submission has
\* isLate = (time of that submit > assignment.dueDate)
C13_StoredIsLate ==
  [][\A r \in pending :
       submitAssignmentSave(r, TRUE) =>
         LET new == Assignments'[r.assignment].submissions
             i == IF r.existing # 0 THEN r.existing ELSE Len(new)
         IN new[i].isLate = LateFlag(r.date, Assignments[r.assignment].dueDate)]_vars

C15_GradeRange ==
  [][\A t \in Teachers, a \in DOMAIN Assignments, g \in BodyGrades \ {NULL},
        fb \in Feedbacks :
       \A sub \in DOMAIN Assignments[a].submissions :
         (Courses[Assignments[a].course].teacherId = t
          /\ gradeSubmission(t, a, sub, g, fb)) =>
           IF g < 0 \/ g > Assignments[a].totalPoints
           THEN resp'.status = 400 /\ Assignments' = Assignments
           ELSE /\ resp'.status = 200
                /\ Assignments'[a].submissions[sub].status = "graded"]_vars

\* C16: in every reachable state no submission has status returned
C16_NeverReturned ==
  \A a \in DOMAIN Assignments :
    \A i \in DOMAIN Assignments[a].submissions :
      Assignments[a].submissions[i].status # "returned"

\* one submission was graded and another one is waiting to be graded
C16_Witness ==
  \E a \in DOMAIN Assignments :
    \E i, j \in DOMAIN Assignments[a].submissions :
      /\ Assignments[a].submissions[i].status = "graded"
      /\ Assignments[a].submissions[j].status = "submitted"

\* C17: every stored Semester has startDate < endDate after any sequence of
\* create and update operations: creating with endDate <= startDate fails
\* with BadRequest, creating with endDate > startDate succeeds, and no update
\* stores a violating pair of dates
C17_SemesterDatesOrdered ==
  [][/\ \A i \in DOMAIN Semesters' :
          Semesters'[i].startDate < Semesters'[i].endDate
     /\ \A n \in SemesterNames, sd \in SemesterDates, ed \in SemesterDates :
          createSemester(n, sd, ed) =>
            IF ed <= sd
            THEN resp'.status = 400 /\ Semesters' = Semesters
            ELSE /\ resp'.status = 201
                 /\ Semesters' = Append(Semesters,
                                        [name |-> n, startDate |-> sd,
                                         endDate |-> ed])]_vars

\* an update moved the dates of a stored semester
C17_Witness ==
  /\ resp.op = "updateSemester" /\ resp.status = 200
  /\ \E i \in DOMAIN Semesters :
       /\ Semesters[i].startDate > TickDays
       /\ Semesters[i].startDate < Semesters[i].endDate

\* C18: deleting a lecture that has a videoKey while the blob delete throws
\* still deletes the lecture row and answers with success
C18_DeleteSurvivesBlobError ==
  [][\A t \in Teachers, l \in DOMAIN Lectures :
       (/\ LectureExists(l)
        /\ Courses[Lectures[l].courseId].teacherId = t
        /\ VideoKeys[l] # NULL
        /\ deleteLecture(t, l, FALSE, TRUE))
       => /\ resp'.status = 200
          /\ ~LectureExists(l)'
          /\ Blobs' = Blobs]_vars

\* a lecture was deleted while its blob could not be: the blob is still stored
C18_Witness ==
  /\ resp.op = "deleteLecture" /\ resp.status = 200
  /\ \E l \in Destroyed : VideoKeys[l] # NULL /\ VideoKeys[l] \in Blobs

\* C19: in every reachable state every committed lecture row with a videoKey
\* references a blob that exists in storage
C19_NoRowWithoutBlob ==
  \A l \in DOMAIN Lectures :
    (LectureExists(l) /\ VideoKeys[l] # NULL) => VideoKeys[l] \in Blobs

\* C20: when a handler deletes a row together with its blob, the blob
\* deletion is attempted only after the transaction deleting the row has
\* committed
C20_BlobDeleteAfterCommit ==
  (resp.op = "deleteLecture" /\ CallIndex(calls, "deleteBlob") # 0) =>
    /\ CallIndex(calls, "commit") # 0
    /\ CallIndex(calls, "commit") < CallIndex(calls, "deleteBlob")

\* the last call of a handler's call log
LastCall(log) == IF log = <<>> THEN "none" ELSE log[Len(log)]

\* C21: when the blob upload fails during lecture creation or e-content
\* module creation, the transaction is rolled back and none of the rows of the
\* operation exist in the committed state
C21_UploadFailureAborts ==
  [][\A t \in Teachers, c \in DOMAIN Courses :
       Courses[c].teacherId = t =>
         /\ \A dbOk \in BOOLEAN :
              createLectureWithVideo(t, c, PlainBody, "video", FALSE, dbOk) =>
                /\ resp'.status = 500
                /\ LastCall(calls') = "rollback"
                /\ Lectures' = Lectures /\ VideoKeys' = VideoKeys
         /\ \A d \in DbFailures \ {"module"}, readOk \in BOOLEAN :
              createEContent(t, c, TRUE, "document", FALSE, d, readOk) =>
                /\ resp'.status = 500
                /\ LastCall(calls') = "rollback"
                /\ EContents' = EContents /\ Modules' = Modules]_vars

\* the upload of a module's file failed in a course that has no module and no
\* EContent row, while another course has both
C21_Witness ==
  /\ resp.op = "createEContent" /\ resp.status = 500
  /\ calls = <<"create", "upload", "rollback">>
  /\ Len(Modules) = 1
  /\ \E c \in DOMAIN Courses : c \notin EContents

\* C22: a mutating operation that touches several tables is all-or-nothing:
\* when course creation or an assignment of a student answers with an error,
\* none of its row changes is committed; a course is committed together with
\* its lectures and the enrollment of every student of the teacher
C22_AllOrNothing ==
  [][/\ \A caller \in TeacherUsers, ok \in BOOLEAN, readOk \in BOOLEAN,
          bodies \in {<<>>} \cup {<<b>> : b \in LectureBodies} :
          createCourse(caller, ok, bodies, readOk) =>
            IF resp'.status >= 400
            THEN UNCHANGED <<Students, Courses, Lectures, StudentCourses>>
            ELSE /\ Len(Courses') = Len(Courses) + 1
                 /\ Len(Lectures') = Len(Lectures) + Len(bodies)
                 /\ \A s \in StudentsOfTeacher(caller) :
                      StudentCourses'[<<s, Len(Courses')>>] = 1
     /\ \A role \in {"teacher", "admin"}, caller \in TeacherUsers,
          s \in StudentUsers, t \in TeacherUsers \cup {NULL} :
          assignStudent(role, caller, s, t) =>
            (resp'.status >= 400 =>
               UNCHANGED <<Students, Courses, Lectures, StudentCourses>>)]_vars

\* the request of slot i ends in this step
Ends(i) == txs[i].op # "idle" /\ txs'[i].op = "idle"

\* C23: when Enroll requests for the same (studentId, courseId) overlap, at
\* most one enrollment row is committed under any interleaving, and a request
\* that did not commit the row ends with an error response, never with a
\* second row or a success
C23_RaceLoserFails ==
  [][/\ \A s \in StudentIds, c \in CourseIds : StudentCourses'[<<s, c>>] <= 1
     /\ \A i \in TxIds :
          (txs[i].op = "enrollCourse" /\ Ends(i)) =>
            IF txs[i].pc = "respond"
            THEN \* it is the request that committed the row
                 /\ txs[i].rows = {<<txs[i].u, txs[i].c>>}
                 /\ StudentCourses' = StudentCourses
            ELSE resp'.status >= 400 /\ StudentCourses' = StudentCourses
     /\ \A i \in TxIds, ok \in BOOLEAN :
          enrollCourseCommit(i, ok) => RowCount(txs[i].u, txs[i].c) = 0]_vars

\* two Enroll requests for the same pair overlapped: one has committed its
\* row and is about to answer, the other one was turned down by the unique
\* constraint
C23_Witness ==
  /\ resp.op = "enrollCourse" /\ resp.status = 500
  /\ calls = <<"create", "rollback">>
  /\ \E i \in TxIds :
       /\ txs[i].op = "enrollCourse" /\ txs[i].pc = "respond"
       /\ RowCount(txs[i].u, txs[i].c) = 1

\* the rows of a batch that the import processes
Imported(row) == IsTeacherRow(row) \/ IsStudentRow(row)

\* a processed row whose email is taken by a stored user or by another
\* processed row of the batch
HasDuplicateEmail(batch) ==
  \E i \in DOMAIN batch :
    /\ Imported(batch[i])
    /\ \/ \E u \in Users : u.email = Lower(batch[i].email)
       \/ \E j \in DOMAIN batch \ {i} :
            Imported(batch[j]) /\ Lower(batch[j].email) = Lower(batch[i].email)

\* a student row whose teacher email names no stored teacher and no teacher
\* row of the batch
HasUnresolvableTeacher(batch) ==
  \E i \in DOMAIN batch :
    /\ IsStudentRow(batch[i])
    /\ \/ batch[i].teacherEmail = NoEmail
       \/ /\ Lower(batch[i].teacherEmail) \notin TeacherRows
          /\ \A j \in DOMAIN batch :
               IsTeacherRow(batch[j]) =>
                 Lower(batch[j].email) # Lower(batch[i].teacherEmail)

\* C24: a bulk import with a duplicate email or an unresolvable teacher email
\* fails as a whole: no user, teacher or student row of the batch is
\* committed; a batch without such a row is committed as a whole
C24_ImportFailsAsAWhole ==
  [][uploadUsersRows(TRUE) =>
       IF HasDuplicateEmail(upload) \/ HasUnresolvableTeacher(upload)
       THEN /\ resp'.status = 400
            /\ LastCall(calls') = "rollback"
            /\ UNCHANGED <<Users, TeacherRows, StudentRows>>
       ELSE /\ resp'.status = 201
            /\ {u.email : u \in Users'} =
                 {u.email : u \in Users} \cup
                 {Lower(upload[i].email) :
                    i \in {j \in DOMAIN upload : Imported(upload[j])}}]_vars

\* an import was rolled back after it had created a row, while users of an
\* earlier import are stored
C24_Witness ==
  /\ resp.op = "uploadUsers" /\ resp.status = 400
  /\ calls = <<"create", "rollback">>
  /\ StudentRows # {}

\* the allow-list of the routes that change events
EventAdmins == {"admin"}

\* C25: every route that changes events is guarded by the bearer-credential
\* check and by a role allow-list check: a request without a valid token, or
\* of a caller whose role is not on the allow-list, changes no event
C25_MutationsGuarded ==
  [][\A token \in Tokens, role \in UserRoles :
       (token # "valid" \/ role \notin EventAdmins) =>
         \A id \in EventIds, n \in EventNames \cup {NULL}, l \in BodyLinks :
           (\/ createEvent(token, role, n, l)
            \/ updateEvent(token, role, id, n, l)
            \/ deleteEvent(token, role, id))
           => Events' = Events]_vars

\* C26: a PUT request to /:courseId/lectures/review-all is handled by
\* updateAllLectureReviewStatuses and not by updateLecture
C26_ReviewAllDispatch ==
  [][\A caller \in TeacherUsers, seg \in PathSegments, a \in ReviewArgs :
       LecturePut(caller, <<seg, "lectures", "review-all">>, a)
       => resp'.op = "updateAllLectureReviewStatuses"]_vars

\* C27: every transaction a handler opens is committed or rolled back on
\* every exit of the handler, early returns included: when an import has
\* answered, the last transaction call of the handler is commit or rollback
C27_TransactionSettled ==
  (resp.op = "uploadUsers" /\ upload = <<>>) =>
    LastCall(calls) \in {"commit", "rollback"}

\* the StudentCourses rows a request has inserted and committed
Committed(i) == IF txs[i].pc = "respond" THEN txs[i].rows ELSE {}

\* C28: when enrollCourse answers with an error, the call added no enrollment
\* row, and rollback is never called on a committed transaction
C28_ErrorMeansNoRow ==
  [][\A i \in TxIds :
       (txs[i].op = "enrollCourse" /\ Ends(i) /\ resp'.status >= 400) =>
         /\ Committed(i) = {}
         /\ CallIndex(calls', "commit") = 0]_vars

\* C30: a save of a lecture whose reviewDeadline is set and has passed stores
\* isReviewed = true: after a teacher's lecture update or review-status
\* update, whatever isReviewed its body carries, an overdue lecture is stored
\* as reviewed
C30_OverdueSaveReviewed ==
  [][\* the step is an update that saved: every handler sets the response,
     \* only the clock's tick keeps it
     (/\ resp'.op \in {"updateLecture", "updateLectureReviewStatus"}
      /\ resp'.status = 200
      /\ now' = now)
     => \A v \in resp'.lectures :
          (/\ Lectures'[v.id].reviewDeadline # NULL
           /\ now >= Lectures'[v.id].reviewDeadline)
          => Lectures'[v.id].isReviewed /\ v.isReviewed]_vars

\* a lecture update was answered with a lecture that is stored as reviewed and
\* whose deadline has passed
C30_Witness ==
  /\ resp.op = "updateLecture" /\ resp.status = 200
  /\ \E l \in DOMAIN Lectures :
       /\ resp.lectures = {[id |-> l, isReviewed |-> TRUE]}
       /\ Lectures[l].reviewDeadline # NULL
       /\ now >= Lectures[l].reviewDeadline
       /\ Lectures[l].isReviewed

\* C29: when createCourse by teacher T overlaps with the assignment of
\* student s to T and both commit, s ends up enrolled in the new course
\* exactly once: once no request is in flight, every student of a teacher has
\* exactly one enrollment row in every course of that teacher
C29_AssignedStudentEnrolledOnce ==
  (\A i \in TxIds : txs[i].op = "idle") =>
    \A s \in StudentIds, c \in DOMAIN Courses :
      Students[s].teacherId = Courses[c].teacherId => RowCount(s, c) = 1

====
